---------------------------- MODULE Spec2Model ----------------------------
(***************************************************************************)
(* The UserAccount aggregate of internal/domain/user/account (entity.go)   *)
(* with its value objects (value_object.go).  One account is modelled:     *)
(* `pc` says whether a constructor has returned it, `ua` holds its fields, *)
(* `now` is the clock that time.Now() reads.  Every method is an operator  *)
(* from (account, arguments, clock reading) to a result [ua, err], and the *)
(* action of the method stores the resulting account.  `inflight` holds    *)
(* the invocations of Disable and Reactivate that two callers run on the   *)
(* account at the same time, each at its own position in the method body.  *)
(*                                                                         *)
(* Go strings are TLA+ strings over ASCII (one byte per character, so len  *)
(* is Len); TrimSpace, ToLower and the regular expressions are computed    *)
(* character by character.  A pointer field is None (nil) or Some(v).      *)
(***************************************************************************)
EXTENDS Integers, Sequences, FiniteSets, TLC

VARIABLES pc, ua, now, lastOp, everActive, failedCalls, steps, inflight

vars == <<pc, ua, now, lastOp, everActive, failedCalls, steps, inflight>>

-----------------------------------------------------------------------------
(* Bounds of the model.                                                    *)

\* the clock runs over 0..MaxTime
MaxTime == 1

\* RecordFailedLogin is not called once the counter has reached MaxFailed
MaxFailed == 2

\* a run of Spec, which interleaves all the methods, makes MaxSteps steps
MaxSteps == 3

\* the strings given to the value objects are, for one, all the strings of
\* at most MaxStrLen characters over a small alphabet
MaxStrLen == 4

-----------------------------------------------------------------------------
(* Pointers.                                                               *)

None == <<>>

Some(v) == <<v>>

-----------------------------------------------------------------------------
(* Characters and strings.                                                 *)

\* the i-th character of s, as a string of length 1
Char(s, i) == SubSeq(s, i, i)

CharsOf(s) == {Char(s, i) : i \in 1..Len(s)}

UpperAlphabet == "ABCDEFGHIJKLMNOPQRSTUVWXYZ"

LowerAlphabet == "abcdefghijklmnopqrstuvwxyz"

\* unicode.IsUpper, on ASCII
UpperChars == CharsOf(UpperAlphabet)

\* unicode.IsLower, on ASCII
LowerChars == CharsOf(LowerAlphabet)

\* unicode.IsNumber, on ASCII
DigitChars == CharsOf("0123456789")

\* unicode.IsSpace, on ASCII
SpaceChars == {" ", "\t", "\n", "\r"}

\* unicode.IsPunct(r) || unicode.IsSymbol(r), on ASCII
SpecialChars ==
    {"!", "#", "%", "&", "*", ",", "-", ".", "/", ":", ";", "?", "@", "_",
     "$", "+", "<", "=", ">", "^", "|", "~"}

RECURSIVE TrimLeft(_)
TrimLeft(s) ==
    IF Len(s) > 0 /\ Char(s, 1) \in SpaceChars THEN TrimLeft(Tail(s)) ELSE s

RECURSIVE TrimRight(_)
TrimRight(s) ==
    IF Len(s) > 0 /\ Char(s, Len(s)) \in SpaceChars
    THEN TrimRight(SubSeq(s, 1, Len(s) - 1))
    ELSE s

\* strings.TrimSpace
TrimSpace(s) == TrimRight(TrimLeft(s))

ToLowerChar(c) ==
    IF c \in UpperChars
    THEN LET i == CHOOSE k \in 1..Len(UpperAlphabet) : Char(UpperAlphabet, k) = c
         IN  Char(LowerAlphabet, i)
    ELSE c

\* strings.ToLower
RECURSIVE ToLower(_)
ToLower(s) ==
    IF Len(s) = 0 THEN s ELSE ToLowerChar(Char(s, 1)) \o ToLower(Tail(s))

\* every character of s[from..to] is in the set cs
AllIn(s, from, to, cs) == \A i \in from..to : Char(s, i) \in cs

-----------------------------------------------------------------------------
(* Errors.  NoErr is the nil error of Go; the others are the messages.          *)

NoErr == "nil"

ErrUsernameTooShort == "username must be at least 3 characters"

ErrUsernameTooLong == "username cannot exceed 30 characters"

ErrUsernameInvalidChars ==
    "username can only contain letters, numbers, and underscore"

ErrInvalidEmail == "invalid email format"

ErrInvalidPassword == "invalid password"

ErrPasswordTooShort == "password must be at least 8 characters"

ErrPasswordTooWeak ==
    "password must contain uppercase, lowercase, number, and special character"

-----------------------------------------------------------------------------
(* Value objects (value_object.go).                                        *)

UsernameMinLen == 3

UsernameMaxLen == 30

PasswordMinLen == 8

TldMinLen == 2

\* [a-zA-Z]
LetterChars == UpperChars \cup LowerChars

\* [a-zA-Z0-9_]
UsernameChars == LetterChars \cup DigitChars \cup {"_"}

\* ^[a-zA-Z0-9_]+$
usernameRegex(s) == Len(s) >= 1 /\ AllIn(s, 1, Len(s), UsernameChars)

\* [a-zA-Z0-9._%+-]
EmailLocalChars == LetterChars \cup DigitChars \cup {".", "_", "%", "+", "-"}

\* [a-zA-Z0-9.-]
EmailDomainChars == LetterChars \cup DigitChars \cup {".", "-"}

\* ^[a-zA-Z0-9._%+-]+@[a-zA-Z0-9.-]+\.[a-zA-Z]{2,}$
\* at: the place of the "@", dot: the place of the "." before the TLD
emailRegex(s) ==
    \E at \in 2..Len(s) : \E dot \in (at + 2)..Len(s) :
        /\ Char(s, at) = "@"
        /\ Char(s, dot) = "."
        /\ Len(s) - dot >= TldMinLen
        /\ AllIn(s, 1, at - 1, EmailLocalChars)
        /\ AllIn(s, at + 1, dot - 1, EmailDomainChars)
        /\ AllIn(s, dot + 1, Len(s), LetterChars)

\* NewUsername that matches the characters before it tests the length
NewUsernameCharsFirst(value) ==
    LET v == TrimSpace(value) IN
    IF ~usernameRegex(v) THEN [err |-> ErrUsernameInvalidChars, value |-> ""]
    ELSE IF Len(v) < UsernameMinLen THEN [err |-> ErrUsernameTooShort, value |-> ""]
    ELSE IF Len(v) > UsernameMaxLen THEN [err |-> ErrUsernameTooLong, value |-> ""]
    ELSE [err |-> NoErr, value |-> v]

\* a value object's constructor returns (value, nil) or (nil, err)
NewUsername(value) ==
    LET v == TrimSpace(value) IN
    IF Len(v) < UsernameMinLen THEN [err |-> ErrUsernameTooShort, value |-> ""]
    ELSE IF Len(v) > UsernameMaxLen THEN [err |-> ErrUsernameTooLong, value |-> ""]
    ELSE IF ~usernameRegex(v) THEN [err |-> ErrUsernameInvalidChars, value |-> ""]
    ELSE [err |-> NoErr, value |-> v]

NewEmail(value) ==
    LET v == TrimSpace(ToLower(value)) IN
    IF ~emailRegex(v) THEN [err |-> ErrInvalidEmail, value |-> ""]
    ELSE [err |-> NoErr, value |-> v]

\* Username.Equals, Email.Equals, PasswordHash.Equals: equality of the values
Equals(v, other) == v = other

NewPasswordHash(value) == value

HasUppercase(password) == \E i \in 1..Len(password) : Char(password, i) \in UpperChars

HasLowercase(password) == \E i \in 1..Len(password) : Char(password, i) \in LowerChars

HasNumber(password) == \E i \in 1..Len(password) : Char(password, i) \in DigitChars

HasSpecialChar(password) ==
    \E i \in 1..Len(password) : Char(password, i) \in SpecialChars

\* ValidatePassword that tests the length before it tests for a blank string
ValidatePasswordLengthFirst(raw) ==
    IF Len(raw) < PasswordMinLen THEN ErrPasswordTooShort
    ELSE IF TrimSpace(raw) = "" THEN ErrInvalidPassword
    ELSE IF ~HasUppercase(raw) \/ ~HasLowercase(raw) \/ ~HasNumber(raw)
            \/ ~HasSpecialChar(raw)
    THEN ErrPasswordTooWeak
    ELSE NoErr

ValidatePassword(raw) ==
    IF TrimSpace(raw) = "" THEN ErrInvalidPassword
    ELSE IF Len(raw) < PasswordMinLen THEN ErrPasswordTooShort
    ELSE IF ~HasUppercase(raw) \/ ~HasLowercase(raw) \/ ~HasNumber(raw)
            \/ ~HasSpecialChar(raw)
    THEN ErrPasswordTooWeak
    ELSE NoErr

-----------------------------------------------------------------------------
(* Enumerations and error messages of entity.go.                           *)

StatusPendingVerification == "pending_verification"

StatusActive == "active"

StatusDisabled == "disabled"

StatusDeleted == "deleted"

DisabilityTypeInactive == "inactive"

DisabilityTypeSuspended == "suspended"

DisabilityTypeBlocked == "blocked"

DisabilityTypeManual == "manual"

DisabilityTypeExpired == "expired"

DisabilityTypeViolation == "violation"

TypeInternal == "internal"

TypeExternal == "external"

TypeMembership == "membership"

TypePartner == "partner"

TypeDeveloper == "developer"

SelfRegistration == "self"

ErrEmptyID == "ID cannot be empty"

ErrEmptyPasswordHash == "password hash cannot be empty"

ErrEmptyRegisteredBy == "registeredBy cannot be empty"

ErrInvalidAccountType == "invalid account type"

ErrInvalidDisabilityType == "invalid disability type"

ErrNotPending == "user account is not pending verification"

ErrAlreadyVerified == "user account is already verified"

ErrEmptyVerifier == "verifier ID cannot be empty"

ErrSelfVerifyNotAllowed ==
    "self-verification only allowed for membership accounts"

ErrNotDisabled == "user account is not disabled"

ErrEmptyActivator == "activator ID cannot be empty"

ErrCannotDisableDeleted == "cannot disable deleted account"

ErrCannotDisableUnverified == "cannot disable unverified account"

ErrAlreadySameDisability ==
    "user account is already disabled with the same type"

ErrEmptyDisabler == "disabler ID cannot be empty"

ErrEmptyReason == "reason cannot be empty"

ErrNotDisabledReactivate ==
    "user account is not disabled, cannot be reactivated"

ErrEmptyReactivator == "reactivator ID cannot be empty"

ErrAlreadyDeleted == "user account is already deleted"

ErrEmptyDeleter == "deleter ID cannot be empty"

ErrSameUsername == "new username is the same as current username"

ErrSameEmail == "new email is the same as current email"

ErrSameType == "new type is the same as current type"

ErrEmptyIP == "IP address cannot be empty"

ErrInvalidMaxAttempts == "max attempts must be greater than 0"

validateAccountType(accountType) ==
    IF accountType \in {TypeInternal, TypeExternal, TypeMembership,
                        TypePartner, TypeDeveloper}
    THEN NoErr
    ELSE ErrInvalidAccountType

validateDisabilityType(disabilityType) ==
    IF disabilityType \in {DisabilityTypeInactive, DisabilityTypeSuspended,
                           DisabilityTypeBlocked, DisabilityTypeManual,
                           DisabilityTypeExpired, DisabilityTypeViolation}
    THEN NoErr
    ELSE ErrInvalidDisabilityType

-----------------------------------------------------------------------------
(* The aggregate.                                                          *)

\* the zero value of the struct: what `ua` holds while no account exists
\* (the constructors return a nil pointer with their error)
NilAccount ==
    [ID |-> "", Username |-> "", Email |-> "", PasswordHash |-> "",
     Status |-> "", Type |-> "", RegisteredBy |-> None,
     DisabilityType |-> None, IsVerified |-> FALSE, VerifiedBy |-> None,
     VerifiedAt |-> None, IssuedReason |-> None, LastActionBy |-> None,
     LastLoginAt |-> None, LastLoginIP |-> None, FailedLoginAttempts |-> 0,
     LastFailedLoginAttempt |-> None, LastFailedLoginIP |-> None,
     LockedUntil |-> None, CreatedAt |-> 0, UpdatedAt |-> 0,
     DeletedAt |-> None, DeletedBy |-> None]

\* the struct literal with the status Active that Verify would set
NewAccountActive(id, usernameObj, emailObj, passwordHash, accountType, registeredBy, t) ==
    [NilAccount EXCEPT
        !.ID = id,
        !.Username = usernameObj,
        !.Email = emailObj,
        !.PasswordHash = passwordHash,
        !.Status = StatusActive,
        !.Type = accountType,
        !.RegisteredBy = Some(registeredBy),
        !.IsVerified = FALSE,
        !.CreatedAt = t,
        !.UpdatedAt = t]

\* the struct literal both constructors return; t is their time.Now()
NewAccount(id, usernameObj, emailObj, passwordHash, accountType, registeredBy, t) ==
    [NilAccount EXCEPT
        !.ID = id,
        !.Username = usernameObj,
        !.Email = emailObj,
        !.PasswordHash = passwordHash,
        !.Status = StatusPendingVerification,
        !.Type = accountType,
        !.RegisteredBy = Some(registeredBy),
        !.IsVerified = FALSE,
        !.CreatedAt = t,
        !.UpdatedAt = t]

Failed(a, e) == [ua |-> a, err |-> e]

Done(a) == [ua |-> a, err |-> NoErr]

\* NewUserAccountWithHash that validates the account type before the rest
NewUserAccountWithHashTypeFirst(id, username, email, hashedPassword, accountType, registeredBy, t) ==
    LET usernameObj == NewUsername(username)
        emailObj == NewEmail(email)
    IN
    IF validateAccountType(accountType) # NoErr
    THEN Failed(NilAccount, validateAccountType(accountType))
    ELSE IF TrimSpace(id) = "" THEN Failed(NilAccount, ErrEmptyID)
    ELSE IF usernameObj.err # NoErr THEN Failed(NilAccount, usernameObj.err)
    ELSE IF emailObj.err # NoErr THEN Failed(NilAccount, emailObj.err)
    ELSE IF TrimSpace(hashedPassword) = "" THEN Failed(NilAccount, ErrEmptyPasswordHash)
    ELSE IF TrimSpace(registeredBy) = "" THEN Failed(NilAccount, ErrEmptyRegisteredBy)
    ELSE Done(NewAccount(id, usernameObj.value, emailObj.value,
                         NewPasswordHash(hashedPassword), accountType,
                         registeredBy, t))

NewUserAccountWithHash(id, username, email, hashedPassword, accountType, registeredBy, t) ==
    LET usernameObj == NewUsername(username)
        emailObj == NewEmail(email)
    IN
    IF TrimSpace(id) = "" THEN Failed(NilAccount, ErrEmptyID)
    ELSE IF usernameObj.err # NoErr THEN Failed(NilAccount, usernameObj.err)
    ELSE IF emailObj.err # NoErr THEN Failed(NilAccount, emailObj.err)
    ELSE IF TrimSpace(hashedPassword) = "" THEN Failed(NilAccount, ErrEmptyPasswordHash)
    ELSE IF validateAccountType(accountType) # NoErr
    THEN Failed(NilAccount, validateAccountType(accountType))
    ELSE IF TrimSpace(registeredBy) = "" THEN Failed(NilAccount, ErrEmptyRegisteredBy)
    ELSE Done(NewAccount(id, usernameObj.value, emailObj.value,
                         NewPasswordHash(hashedPassword), accountType,
                         registeredBy, t))

NewUserAccountForTesting(id, username, email, rawPassword, accountType, registeredBy, t) ==
    LET usernameObj == NewUsername(username)
        emailObj == NewEmail(email)
    IN
    IF TrimSpace(id) = "" THEN Failed(NilAccount, ErrEmptyID)
    ELSE IF usernameObj.err # NoErr THEN Failed(NilAccount, usernameObj.err)
    ELSE IF emailObj.err # NoErr THEN Failed(NilAccount, emailObj.err)
    ELSE IF ValidatePassword(rawPassword) # NoErr
    THEN Failed(NilAccount, ValidatePassword(rawPassword))
    ELSE IF validateAccountType(accountType) # NoErr
    THEN Failed(NilAccount, validateAccountType(accountType))
    ELSE IF TrimSpace(registeredBy) = "" THEN Failed(NilAccount, ErrEmptyRegisteredBy)
    ELSE Done(NewAccount(id, usernameObj.value, emailObj.value,
                         NewPasswordHash("hashed_" \o rawPassword), accountType,
                         registeredBy, t))

\* self registration that binds the account type External
NewUserAccountForSelfRegistrationExternal(id, username, email, hashedPassword, t) ==
    NewUserAccountWithHash(id, username, email, hashedPassword, TypeExternal,
                           SelfRegistration, t)

NewUserAccountForSelfRegistration(id, username, email, hashedPassword, t) ==
    NewUserAccountWithHash(id, username, email, hashedPassword, TypeMembership,
                           SelfRegistration, t)

-----------------------------------------------------------------------------
(* Business methods.  a is the receiver, t the value of the method's one   *)
(* time.Now() call.  A method that returns an error has written nothing.   *)

\* Verify that tests isVerified before it tests the status
VerifyChecksVerifiedFirst(a, verifierID, t) ==
    IF a.IsVerified THEN Failed(a, ErrAlreadyVerified)
    ELSE IF a.Status # StatusPendingVerification THEN Failed(a, ErrNotPending)
    ELSE IF TrimSpace(verifierID) = "" THEN Failed(a, ErrEmptyVerifier)
    ELSE Done([a EXCEPT
                 !.IsVerified = TRUE,
                 !.VerifiedBy = Some(verifierID),
                 !.VerifiedAt = Some(t),
                 !.Status = StatusActive,
                 !.UpdatedAt = t,
                 !.LastActionBy = Some(verifierID)])

\* Verify that compares verifierID with "" without trimming it
VerifyNoTrim(a, verifierID, t) ==
    IF a.Status # StatusPendingVerification THEN Failed(a, ErrNotPending)
    ELSE IF a.IsVerified THEN Failed(a, ErrAlreadyVerified)
    ELSE IF verifierID = "" THEN Failed(a, ErrEmptyVerifier)
    ELSE Done([a EXCEPT
                 !.IsVerified = TRUE,
                 !.VerifiedBy = Some(verifierID),
                 !.VerifiedAt = Some(t),
                 !.Status = StatusActive,
                 !.UpdatedAt = t,
                 !.LastActionBy = Some(verifierID)])

\* Verify without its check of the status
VerifyAnyStatus(a, verifierID, t) ==
    IF a.IsVerified THEN Failed(a, ErrAlreadyVerified)
    ELSE IF TrimSpace(verifierID) = "" THEN Failed(a, ErrEmptyVerifier)
    ELSE Done([a EXCEPT
                 !.IsVerified = TRUE,
                 !.VerifiedBy = Some(verifierID),
                 !.VerifiedAt = Some(t),
                 !.Status = StatusActive,
                 !.UpdatedAt = t,
                 !.LastActionBy = Some(verifierID)])

Verify(a, verifierID, t) ==
    IF a.Status # StatusPendingVerification THEN Failed(a, ErrNotPending)
    ELSE IF a.IsVerified THEN Failed(a, ErrAlreadyVerified)
    ELSE IF TrimSpace(verifierID) = "" THEN Failed(a, ErrEmptyVerifier)
    ELSE Done([a EXCEPT
                 !.IsVerified = TRUE,
                 !.VerifiedBy = Some(verifierID),
                 !.VerifiedAt = Some(t),
                 !.Status = StatusActive,
                 !.UpdatedAt = t,
                 !.LastActionBy = Some(verifierID)])

\* SelfVerify without its check of the account type
SelfVerifyAnyType(a, t) ==
    IF a.Status # StatusPendingVerification THEN Failed(a, ErrNotPending)
    ELSE IF a.IsVerified THEN Failed(a, ErrAlreadyVerified)
    ELSE Done([a EXCEPT
                 !.IsVerified = TRUE,
                 !.VerifiedBy = Some(SelfRegistration),
                 !.VerifiedAt = Some(t),
                 !.Status = StatusActive,
                 !.UpdatedAt = t,
                 !.LastActionBy = Some(SelfRegistration)])

\* SelfVerify that marks the account verified and leaves its status
SelfVerifyKeepsStatus(a, t) ==
    IF a.Status # StatusPendingVerification THEN Failed(a, ErrNotPending)
    ELSE IF a.IsVerified THEN Failed(a, ErrAlreadyVerified)
    ELSE IF a.Type # TypeMembership THEN Failed(a, ErrSelfVerifyNotAllowed)
    ELSE Done([a EXCEPT
                 !.IsVerified = TRUE,
                 !.VerifiedBy = Some(SelfRegistration),
                 !.VerifiedAt = Some(t),
                 !.UpdatedAt = t,
                 !.LastActionBy = Some(SelfRegistration)])

\* SelfVerify that also requires the account to be self-registered
SelfVerifyOnlySelfRegistered(a, t) ==
    IF a.Status # StatusPendingVerification THEN Failed(a, ErrNotPending)
    ELSE IF a.IsVerified THEN Failed(a, ErrAlreadyVerified)
    ELSE IF a.Type # TypeMembership \/ a.RegisteredBy # Some(SelfRegistration)
    THEN Failed(a, ErrSelfVerifyNotAllowed)
    ELSE Done([a EXCEPT
                 !.IsVerified = TRUE,
                 !.VerifiedBy = Some(SelfRegistration),
                 !.VerifiedAt = Some(t),
                 !.Status = StatusActive,
                 !.UpdatedAt = t,
                 !.LastActionBy = Some(SelfRegistration)])

SelfVerify(a, t) ==
    IF a.Status # StatusPendingVerification THEN Failed(a, ErrNotPending)
    ELSE IF a.IsVerified THEN Failed(a, ErrAlreadyVerified)
    ELSE IF a.Type # TypeMembership THEN Failed(a, ErrSelfVerifyNotAllowed)
    ELSE Done([a EXCEPT
                 !.IsVerified = TRUE,
                 !.VerifiedBy = Some(SelfRegistration),
                 !.VerifiedAt = Some(t),
                 !.Status = StatusActive,
                 !.UpdatedAt = t,
                 !.LastActionBy = Some(SelfRegistration)])

\* Activate that leaves the reason of the disability in place
ActivateKeepsReason(a, activatorID, t) ==
    IF a.Status # StatusDisabled THEN Failed(a, ErrNotDisabled)
    ELSE IF TrimSpace(activatorID) = "" THEN Failed(a, ErrEmptyActivator)
    ELSE Done([a EXCEPT
                 !.Status = StatusActive,
                 !.DisabilityType = None,
                 !.UpdatedAt = t,
                 !.LastActionBy = Some(activatorID)])

\* Activate that records the activator as the verifier
ActivateReverifies(a, activatorID, t) ==
    IF a.Status # StatusDisabled THEN Failed(a, ErrNotDisabled)
    ELSE IF TrimSpace(activatorID) = "" THEN Failed(a, ErrEmptyActivator)
    ELSE Done([a EXCEPT
                 !.Status = StatusActive,
                 !.DisabilityType = None,
                 !.IssuedReason = None,
                 !.VerifiedBy = Some(activatorID),
                 !.VerifiedAt = Some(t),
                 !.UpdatedAt = t,
                 !.LastActionBy = Some(activatorID)])

Activate(a, activatorID, t) ==
    IF a.Status # StatusDisabled THEN Failed(a, ErrNotDisabled)
    ELSE IF TrimSpace(activatorID) = "" THEN Failed(a, ErrEmptyActivator)
    ELSE Done([a EXCEPT
                 !.Status = StatusActive,
                 !.DisabilityType = None,
                 !.IssuedReason = None,
                 !.UpdatedAt = t,
                 !.LastActionBy = Some(activatorID)])

\* Disable without its check for the disability type already in force
DisableAllowsSameType(a, disablerID, disabilityType, reason, t) ==
    IF a.Status = StatusDeleted THEN Failed(a, ErrCannotDisableDeleted)
    ELSE IF a.Status = StatusPendingVerification
    THEN Failed(a, ErrCannotDisableUnverified)
    ELSE IF TrimSpace(disablerID) = "" THEN Failed(a, ErrEmptyDisabler)
    ELSE IF TrimSpace(reason) = "" THEN Failed(a, ErrEmptyReason)
    ELSE IF validateDisabilityType(disabilityType) # NoErr
    THEN Failed(a, validateDisabilityType(disabilityType))
    ELSE Done([a EXCEPT
                 !.Status = StatusDisabled,
                 !.DisabilityType = Some(disabilityType),
                 !.IssuedReason = Some(reason),
                 !.UpdatedAt = t,
                 !.LastActionBy = Some(disablerID)])

\* Disable that rejects every account that is already disabled
DisableRejectsDisabled(a, disablerID, disabilityType, reason, t) ==
    IF a.Status = StatusDeleted THEN Failed(a, ErrCannotDisableDeleted)
    ELSE IF a.Status = StatusPendingVerification
    THEN Failed(a, ErrCannotDisableUnverified)
    ELSE IF a.Status = StatusDisabled THEN Failed(a, ErrAlreadySameDisability)
    ELSE IF TrimSpace(disablerID) = "" THEN Failed(a, ErrEmptyDisabler)
    ELSE IF TrimSpace(reason) = "" THEN Failed(a, ErrEmptyReason)
    ELSE IF validateDisabilityType(disabilityType) # NoErr
    THEN Failed(a, validateDisabilityType(disabilityType))
    ELSE Done([a EXCEPT
                 !.Status = StatusDisabled,
                 !.DisabilityType = Some(disabilityType),
                 !.IssuedReason = Some(reason),
                 !.UpdatedAt = t,
                 !.LastActionBy = Some(disablerID)])

\* Disable that validates its arguments before it looks at the account
DisableValidatesArgumentsFirst(a, disablerID, disabilityType, reason, t) ==
    IF TrimSpace(disablerID) = "" THEN Failed(a, ErrEmptyDisabler)
    ELSE IF TrimSpace(reason) = "" THEN Failed(a, ErrEmptyReason)
    ELSE IF validateDisabilityType(disabilityType) # NoErr
    THEN Failed(a, validateDisabilityType(disabilityType))
    ELSE IF a.Status = StatusDeleted THEN Failed(a, ErrCannotDisableDeleted)
    ELSE IF a.Status = StatusPendingVerification
    THEN Failed(a, ErrCannotDisableUnverified)
    ELSE IF /\ a.Status = StatusDisabled
            /\ a.DisabilityType # None
            /\ a.DisabilityType[1] = disabilityType
    THEN Failed(a, ErrAlreadySameDisability)
    ELSE Done([a EXCEPT
                 !.Status = StatusDisabled,
                 !.DisabilityType = Some(disabilityType),
                 !.IssuedReason = Some(reason),
                 !.UpdatedAt = t,
                 !.LastActionBy = Some(disablerID)])

\* Disable without its check for an unverified (pending) account
DisableAllowsPending(a, disablerID, disabilityType, reason, t) ==
    IF a.Status = StatusDeleted THEN Failed(a, ErrCannotDisableDeleted)
    ELSE IF /\ a.Status = StatusDisabled
            /\ a.DisabilityType # None
            /\ a.DisabilityType[1] = disabilityType
    THEN Failed(a, ErrAlreadySameDisability)
    ELSE IF TrimSpace(disablerID) = "" THEN Failed(a, ErrEmptyDisabler)
    ELSE IF TrimSpace(reason) = "" THEN Failed(a, ErrEmptyReason)
    ELSE IF validateDisabilityType(disabilityType) # NoErr
    THEN Failed(a, validateDisabilityType(disabilityType))
    ELSE Done([a EXCEPT
                 !.Status = StatusDisabled,
                 !.DisabilityType = Some(disabilityType),
                 !.IssuedReason = Some(reason),
                 !.UpdatedAt = t,
                 !.LastActionBy = Some(disablerID)])

\* Disable that also lifts the lock and resets the failure counter
DisableClearsLock(a, disablerID, disabilityType, reason, t) ==
    IF a.Status = StatusDeleted THEN Failed(a, ErrCannotDisableDeleted)
    ELSE IF a.Status = StatusPendingVerification
    THEN Failed(a, ErrCannotDisableUnverified)
    ELSE IF /\ a.Status = StatusDisabled
            /\ a.DisabilityType # None
            /\ a.DisabilityType[1] = disabilityType
    THEN Failed(a, ErrAlreadySameDisability)
    ELSE IF TrimSpace(disablerID) = "" THEN Failed(a, ErrEmptyDisabler)
    ELSE IF TrimSpace(reason) = "" THEN Failed(a, ErrEmptyReason)
    ELSE IF validateDisabilityType(disabilityType) # NoErr
    THEN Failed(a, validateDisabilityType(disabilityType))
    ELSE Done([a EXCEPT
                 !.Status = StatusDisabled,
                 !.DisabilityType = Some(disabilityType),
                 !.IssuedReason = Some(reason),
                 !.FailedLoginAttempts = 0,
                 !.LockedUntil = None,
                 !.UpdatedAt = t,
                 !.LastActionBy = Some(disablerID)])

Disable(a, disablerID, disabilityType, reason, t) ==
    IF a.Status = StatusDeleted THEN Failed(a, ErrCannotDisableDeleted)
    ELSE IF a.Status = StatusPendingVerification
    THEN Failed(a, ErrCannotDisableUnverified)
    ELSE IF /\ a.Status = StatusDisabled
            /\ a.DisabilityType # None
            /\ a.DisabilityType[1] = disabilityType
    THEN Failed(a, ErrAlreadySameDisability)
    ELSE IF TrimSpace(disablerID) = "" THEN Failed(a, ErrEmptyDisabler)
    ELSE IF TrimSpace(reason) = "" THEN Failed(a, ErrEmptyReason)
    ELSE IF validateDisabilityType(disabilityType) # NoErr
    THEN Failed(a, validateDisabilityType(disabilityType))
    ELSE Done([a EXCEPT
                 !.Status = StatusDisabled,
                 !.DisabilityType = Some(disabilityType),
                 !.IssuedReason = Some(reason),
                 !.UpdatedAt = t,
                 !.LastActionBy = Some(disablerID)])

SetInactive(a, userID, reason, t) ==
    Disable(a, userID, DisabilityTypeInactive, reason, t)

\* Suspend that binds the disability type of Block
SuspendBindsBlocked(a, userID, reason, t) ==
    Disable(a, userID, DisabilityTypeBlocked, reason, t)

Suspend(a, userID, reason, t) ==
    Disable(a, userID, DisabilityTypeSuspended, reason, t)

Block(a, userID, reason, t) ==
    Disable(a, userID, DisabilityTypeBlocked, reason, t)

SetExpired(a, userID, reason, t) ==
    Disable(a, userID, DisabilityTypeExpired, reason, t)

SetViolation(a, userID, reason, t) ==
    Disable(a, userID, DisabilityTypeViolation, reason, t)

DisableManually(a, userID, reason, t) ==
    Disable(a, userID, DisabilityTypeManual, reason, t)

\* Reactivate that withdraws the verification with the disability
ReactivateUnverifies(a, reactivatorID, t) ==
    IF a.Status # StatusDisabled THEN Failed(a, ErrNotDisabledReactivate)
    ELSE IF TrimSpace(reactivatorID) = "" THEN Failed(a, ErrEmptyReactivator)
    ELSE Done([a EXCEPT
                 !.Status = StatusActive,
                 !.IsVerified = FALSE,
                 !.DisabilityType = None,
                 !.IssuedReason = None,
                 !.UpdatedAt = t,
                 !.LastActionBy = Some(reactivatorID)])

\* Reactivate that checks its argument before the status
ReactivateChecksActorFirst(a, reactivatorID, t) ==
    IF TrimSpace(reactivatorID) = "" THEN Failed(a, ErrEmptyReactivator)
    ELSE IF a.Status # StatusDisabled THEN Failed(a, ErrNotDisabledReactivate)
    ELSE Done([a EXCEPT
                 !.Status = StatusActive,
                 !.DisabilityType = None,
                 !.IssuedReason = None,
                 !.UpdatedAt = t,
                 !.LastActionBy = Some(reactivatorID)])

Reactivate(a, reactivatorID, t) ==
    IF a.Status # StatusDisabled THEN Failed(a, ErrNotDisabledReactivate)
    ELSE IF TrimSpace(reactivatorID) = "" THEN Failed(a, ErrEmptyReactivator)
    ELSE Done([a EXCEPT
                 !.Status = StatusActive,
                 !.DisabilityType = None,
                 !.IssuedReason = None,
                 !.UpdatedAt = t,
                 !.LastActionBy = Some(reactivatorID)])

\* Delete that refuses an account that was never verified
DeleteRefusesPending(a, deleterID, t) ==
    IF a.Status = StatusDeleted THEN Failed(a, ErrAlreadyDeleted)
    ELSE IF a.Status = StatusPendingVerification
    THEN Failed(a, ErrCannotDisableUnverified)
    ELSE IF TrimSpace(deleterID) = "" THEN Failed(a, ErrEmptyDeleter)
    ELSE Done([a EXCEPT
                 !.Status = StatusDeleted,
                 !.DeletedAt = Some(t),
                 !.DeletedBy = Some(deleterID),
                 !.UpdatedAt = t,
                 !.LastActionBy = Some(deleterID)])

\* Delete that validates deleterID before it looks at the status
DeleteChecksActorFirst(a, deleterID, t) ==
    IF TrimSpace(deleterID) = "" THEN Failed(a, ErrEmptyDeleter)
    ELSE IF a.Status = StatusDeleted THEN Failed(a, ErrAlreadyDeleted)
    ELSE Done([a EXCEPT
                 !.Status = StatusDeleted,
                 !.DeletedAt = Some(t),
                 !.DeletedBy = Some(deleterID),
                 !.UpdatedAt = t,
                 !.LastActionBy = Some(deleterID)])

\* Delete that reads the clock a second time, one tick later, for deletedAt
DeleteReadsClockTwice(a, deleterID, t) ==
    IF a.Status = StatusDeleted THEN Failed(a, ErrAlreadyDeleted)
    ELSE IF TrimSpace(deleterID) = "" THEN Failed(a, ErrEmptyDeleter)
    ELSE Done([a EXCEPT
                 !.Status = StatusDeleted,
                 !.DeletedAt = Some(t + 1),
                 !.DeletedBy = Some(deleterID),
                 !.UpdatedAt = t,
                 !.LastActionBy = Some(deleterID)])

\* Delete that does not record who deleted the account
DeleteOmitsDeletedBy(a, deleterID, t) ==
    IF a.Status = StatusDeleted THEN Failed(a, ErrAlreadyDeleted)
    ELSE IF TrimSpace(deleterID) = "" THEN Failed(a, ErrEmptyDeleter)
    ELSE Done([a EXCEPT
                 !.Status = StatusDeleted,
                 !.DeletedAt = Some(t),
                 !.UpdatedAt = t,
                 !.LastActionBy = Some(deleterID)])

Delete(a, deleterID, t) ==
    IF a.Status = StatusDeleted THEN Failed(a, ErrAlreadyDeleted)
    ELSE IF TrimSpace(deleterID) = "" THEN Failed(a, ErrEmptyDeleter)
    ELSE Done([a EXCEPT
                 !.Status = StatusDeleted,
                 !.DeletedAt = Some(t),
                 !.DeletedBy = Some(deleterID),
                 !.UpdatedAt = t,
                 !.LastActionBy = Some(deleterID)])

\* UpdateUsername that compares the raw argument with the current username
UpdateUsernameComparesRaw(a, newUsername, t) ==
    LET newUsernameObj == NewUsername(newUsername) IN
    IF newUsernameObj.err # NoErr THEN Failed(a, newUsernameObj.err)
    ELSE IF Equals(a.Username, newUsername) THEN Failed(a, ErrSameUsername)
    ELSE Done([a EXCEPT !.Username = newUsernameObj.value, !.UpdatedAt = t])

UpdateUsername(a, newUsername, t) ==
    LET newUsernameObj == NewUsername(newUsername) IN
    IF newUsernameObj.err # NoErr THEN Failed(a, newUsernameObj.err)
    ELSE IF Equals(a.Username, newUsernameObj.value) THEN Failed(a, ErrSameUsername)
    ELSE Done([a EXCEPT !.Username = newUsernameObj.value, !.UpdatedAt = t])

UpdateEmail(a, newEmail, t) ==
    LET newEmailObj == NewEmail(newEmail) IN
    IF newEmailObj.err # NoErr THEN Failed(a, newEmailObj.err)
    ELSE IF Equals(a.Email, newEmailObj.value) THEN Failed(a, ErrSameEmail)
    ELSE Done([a EXCEPT !.Email = newEmailObj.value, !.UpdatedAt = t])

UpdatePasswordHash(a, hashedPassword, t) ==
    IF TrimSpace(hashedPassword) = "" THEN Failed(a, ErrEmptyPasswordHash)
    ELSE Done([a EXCEPT
                 !.PasswordHash = NewPasswordHash(hashedPassword),
                 !.UpdatedAt = t])

\* UpdateType without the validation of the new type
UpdateTypeNoValidation(a, newType, t) ==
    IF a.Type = newType THEN Failed(a, ErrSameType)
    ELSE Done([a EXCEPT !.Type = newType, !.UpdatedAt = t])

\* UpdateType that refuses a deleted account
UpdateTypeRefusesDeleted(a, newType, t) ==
    IF a.Status = StatusDeleted THEN Failed(a, ErrAlreadyDeleted)
    ELSE IF a.Type = newType THEN Failed(a, ErrSameType)
    ELSE IF validateAccountType(newType) # NoErr
    THEN Failed(a, validateAccountType(newType))
    ELSE Done([a EXCEPT !.Type = newType, !.UpdatedAt = t])

UpdateType(a, newType, t) ==
    IF a.Type = newType THEN Failed(a, ErrSameType)
    ELSE IF validateAccountType(newType) # NoErr
    THEN Failed(a, validateAccountType(newType))
    ELSE Done([a EXCEPT !.Type = newType, !.UpdatedAt = t])

\* RecordSuccessfulLogin that resets the counter but leaves the lock in place
RecordSuccessfulLoginKeepsLock(a, ipAddress, t) ==
    IF TrimSpace(ipAddress) = "" THEN Failed(a, ErrEmptyIP)
    ELSE Done([a EXCEPT
                 !.LastLoginAt = Some(t),
                 !.LastLoginIP = Some(ipAddress),
                 !.FailedLoginAttempts = 0,
                 !.UpdatedAt = t])

RecordSuccessfulLogin(a, ipAddress, t) ==
    IF TrimSpace(ipAddress) = "" THEN Failed(a, ErrEmptyIP)
    ELSE Done([a EXCEPT
                 !.LastLoginAt = Some(t),
                 !.LastLoginIP = Some(ipAddress),
                 !.FailedLoginAttempts = 0,
                 !.LockedUntil = None,
                 !.UpdatedAt = t])

\* RecordFailedLogin that locks only once the count exceeds maxAttempts
RecordFailedLoginLocksLate(a, ipAddress, maxAttempts, lockDuration, t) ==
    IF TrimSpace(ipAddress) = "" THEN Failed(a, ErrEmptyIP)
    ELSE IF maxAttempts <= 0 THEN Failed(a, ErrInvalidMaxAttempts)
    ELSE LET attempts == a.FailedLoginAttempts + 1 IN
         Done([a EXCEPT
                 !.FailedLoginAttempts = attempts,
                 !.LastFailedLoginAttempt = Some(t),
                 !.LastFailedLoginIP = Some(ipAddress),
                 !.LockedUntil = IF attempts > maxAttempts
                                 THEN Some(t + lockDuration)
                                 ELSE @,
                 !.UpdatedAt = t])

\* RecordFailedLogin that counts the attempt before it validates maxAttempts
RecordFailedLoginCountsFirst(a, ipAddress, maxAttempts, lockDuration, t) ==
    IF TrimSpace(ipAddress) = "" THEN Failed(a, ErrEmptyIP)
    ELSE LET attempts == a.FailedLoginAttempts + 1 IN
         IF maxAttempts <= 0
         THEN Failed([a EXCEPT !.FailedLoginAttempts = attempts],
                     ErrInvalidMaxAttempts)
         ELSE Done([a EXCEPT
                      !.FailedLoginAttempts = attempts,
                      !.LastFailedLoginAttempt = Some(t),
                      !.LastFailedLoginIP = Some(ipAddress),
                      !.LockedUntil = IF attempts >= maxAttempts
                                      THEN Some(t + lockDuration)
                                      ELSE @,
                      !.UpdatedAt = t])

\* RecordFailedLogin that starts the count again once the lock has run out
RecordFailedLoginForgetsExpired(a, ipAddress, maxAttempts, lockDuration, t) ==
    IF TrimSpace(ipAddress) = "" THEN Failed(a, ErrEmptyIP)
    ELSE IF maxAttempts <= 0 THEN Failed(a, ErrInvalidMaxAttempts)
    ELSE LET expired == a.LockedUntil # None /\ ~(t < a.LockedUntil[1])
             attempts == IF expired THEN 1 ELSE a.FailedLoginAttempts + 1
         IN
         Done([a EXCEPT
                 !.FailedLoginAttempts = attempts,
                 !.LastFailedLoginAttempt = Some(t),
                 !.LastFailedLoginIP = Some(ipAddress),
                 !.LockedUntil = IF attempts >= maxAttempts
                                 THEN Some(t + lockDuration)
                                 ELSE IF expired THEN None ELSE @,
                 !.UpdatedAt = t])

RecordFailedLogin(a, ipAddress, maxAttempts, lockDuration, t) ==
    IF TrimSpace(ipAddress) = "" THEN Failed(a, ErrEmptyIP)
    ELSE IF maxAttempts <= 0 THEN Failed(a, ErrInvalidMaxAttempts)
    ELSE LET attempts == a.FailedLoginAttempts + 1 IN
         Done([a EXCEPT
                 !.FailedLoginAttempts = attempts,
                 !.LastFailedLoginAttempt = Some(t),
                 !.LastFailedLoginIP = Some(ipAddress),
                 !.LockedUntil = IF attempts >= maxAttempts
                                 THEN Some(t + lockDuration)
                                 ELSE @,
                 !.UpdatedAt = t])

\* UnlockAccount that forgets to stamp updatedAt
UnlockAccountNoTimestamp(a, t) ==
    Done([a EXCEPT
            !.FailedLoginAttempts = 0,
            !.LockedUntil = None])

\* UnlockAccount that resets the counter and leaves the lock
UnlockAccountKeepsLock(a, t) ==
    Done([a EXCEPT
            !.FailedLoginAttempts = 0,
            !.UpdatedAt = t])

\* returns nothing: it cannot fail
UnlockAccount(a, t) ==
    Done([a EXCEPT
            !.FailedLoginAttempts = 0,
            !.LockedUntil = None,
            !.UpdatedAt = t])

-----------------------------------------------------------------------------
(* Query methods; t is the value of time.Now() where the method reads it.  *)

\* CanLogin that still refuses at the instant the lock expires
CanLoginRefusesAtExpiry(a, t) ==
    IF a.Status # StatusActive \/ ~a.IsVerified THEN FALSE
    ELSE IF a.LockedUntil # None /\ t <= a.LockedUntil[1] THEN FALSE
    ELSE TRUE

CanLogin(a, t) ==
    IF a.Status # StatusActive \/ ~a.IsVerified THEN FALSE
    ELSE IF a.LockedUntil # None /\ t < a.LockedUntil[1] THEN FALSE
    ELSE TRUE

IsLocked(a, t) == a.LockedUntil # None /\ t < a.LockedUntil[1]

IsActive(a) == a.Status = StatusActive

IsDisabled(a) == a.Status = StatusDisabled

IsSoftDeleted(a) == a.Status = StatusDeleted

IsPendingVerification(a) == a.Status = StatusPendingVerification

IsInactive(a) ==
    /\ a.Status = StatusDisabled
    /\ a.DisabilityType # None
    /\ a.DisabilityType[1] = DisabilityTypeInactive

IsSuspended(a) ==
    /\ a.Status = StatusDisabled
    /\ a.DisabilityType # None
    /\ a.DisabilityType[1] = DisabilityTypeSuspended

IsBlocked(a) ==
    /\ a.Status = StatusDisabled
    /\ a.DisabilityType # None
    /\ a.DisabilityType[1] = DisabilityTypeBlocked

IsExpired(a) ==
    /\ a.Status = StatusDisabled
    /\ a.DisabilityType # None
    /\ a.DisabilityType[1] = DisabilityTypeExpired

HasViolation(a) ==
    /\ a.Status = StatusDisabled
    /\ a.DisabilityType # None
    /\ a.DisabilityType[1] = DisabilityTypeViolation

IsManuallyDisabled(a) ==
    /\ a.Status = StatusDisabled
    /\ a.DisabilityType # None
    /\ a.DisabilityType[1] = DisabilityTypeManual

IsSelfRegistered(a) ==
    a.RegisteredBy # None /\ a.RegisteredBy[1] = SelfRegistration

-----------------------------------------------------------------------------
(* Arguments the callers pass.                                             *)

IDInputs == {"user-id-1", " "}

UsernameInputs ==
    {"testuser", " testuser ", "ab", "bad-name",
     "aaaaaaaaaabbbbbbbbbbccccccccccd"}

NewUsernameInputs == UsernameInputs \cup {"new_user1"}

EmailInputs ==
    {"user@example.com", "USER@Example.COM ",
     "userexample.com", "user@example.c"}

NewEmailInputs == EmailInputs \cup {"new@example.org"}

HashInputs == {"hashed_Password1!", "", "  "}

NewHashInputs == HashInputs \cup {"new_hashed_pw"}

PasswordInputs == {"Password1!", "password1!", "P1!", "        "}

AccountTypeInputs ==
    {TypeInternal, TypeExternal, TypeMembership, TypePartner, TypeDeveloper,
     "invalid"}

ActorInputs == {"admin-1", "admin-2", "", " "}

RegisteredByInputs == {"admin-1", ""}

DisabilityTypeInputs ==
    {DisabilityTypeInactive, DisabilityTypeSuspended, DisabilityTypeBlocked,
     DisabilityTypeManual, DisabilityTypeExpired, DisabilityTypeViolation,
     "invalid_type"}

ReasonInputs == {"abuse", "abuse again", ""}

IPInputs == {"192.168.1.1", "", " "}

MaxAttemptsInputs == 0..MaxFailed

LockDurationInputs == {-1, 0, 1}

-----------------------------------------------------------------------------
(* The state machine: a caller that constructs one account and then calls  *)
(* its methods in any order with any arguments, while the clock advances.  *)

\* no invocation is in flight: `at` is the position of an invocation in its
\* method body (0 before its checks, k when its k-th write is next, one
\* more than the number of writes once it has returned), `t` the value its
\* time.Now() returned, `err` what it returned, `mixed` whether a step of
\* one invocation was taken while the other was inside its body, onStatus
\* and onType the status and disability type the account had when the two
\* invocations began
NoCalls ==
    [running |-> FALSE, mixed |-> FALSE, onStatus |-> "", onType |-> None,
     Disable |-> [at |-> 0, t |-> 0, err |-> NoErr, disablerID |-> "",
                  disabilityType |-> "", reason |-> ""],
     Reactivate |-> [at |-> 0, t |-> 0, err |-> NoErr, reactivatorID |-> ""]]

Init ==
    /\ pc = "new"
    /\ ua = NilAccount
    /\ now = 0
    /\ lastOp = "none"
    /\ everActive = FALSE
    /\ failedCalls = 0
    /\ steps = 0
    /\ inflight = NoCalls

\* a constructor returns r: the account exists if r.err is nil
Construct(op, r) ==
    /\ ~inflight.running
    /\ pc' = IF r.err = NoErr THEN "live" ELSE "new"
    /\ ua' = r.ua
    /\ lastOp' = IF r.err = NoErr THEN op ELSE lastOp
    /\ UNCHANGED <<now, everActive, failedCalls, inflight>>

\* a method call on the account returns r; lastOp keeps the name of the
\* last call that returned nil, everActive whether status was ever Active,
\* failedCalls the number of RecordFailedLogin calls that returned nil since
\* the last RecordSuccessfulLogin or UnlockAccount that did
Call(op, r) ==
    /\ pc = "live"
    /\ ~inflight.running
    /\ ua' = r.ua
    /\ lastOp' = IF r.err = NoErr THEN op ELSE lastOp
    /\ everActive' = (everActive \/ r.ua.Status = StatusActive)
    /\ failedCalls' =
          IF r.err # NoErr THEN failedCalls
          ELSE IF op = "RecordFailedLogin" THEN failedCalls + 1
          ELSE IF op \in {"RecordSuccessfulLogin", "UnlockAccount"} THEN 0
          ELSE failedCalls
    /\ UNCHANGED <<pc, now, inflight>>

DoNewUserAccountWithHash ==
    /\ pc = "new"
    /\ \E id \in IDInputs, username \in UsernameInputs, email \in EmailInputs,
       hashedPassword \in HashInputs, accountType \in AccountTypeInputs,
       registeredBy \in RegisteredByInputs :
        Construct("NewUserAccountWithHash",
                  NewUserAccountWithHash(id, username, email, hashedPassword,
                                         accountType, registeredBy, now))

DoNewUserAccountForTesting ==
    /\ pc = "new"
    /\ \E id \in IDInputs, username \in UsernameInputs, email \in EmailInputs,
       rawPassword \in PasswordInputs, accountType \in AccountTypeInputs,
       registeredBy \in RegisteredByInputs :
        Construct("NewUserAccountForTesting",
                  NewUserAccountForTesting(id, username, email, rawPassword,
                                           accountType, registeredBy, now))

DoNewUserAccountForSelfRegistration ==
    /\ pc = "new"
    /\ \E id \in IDInputs, username \in UsernameInputs, email \in EmailInputs,
       hashedPassword \in HashInputs :
        Construct("NewUserAccountForSelfRegistration",
                  NewUserAccountForSelfRegistration(id, username, email,
                                                    hashedPassword, now))

DoVerify ==
    \E verifierID \in ActorInputs : Call("Verify", Verify(ua, verifierID, now))

DoSelfVerify == Call("SelfVerify", SelfVerify(ua, now))

DoActivate ==
    \E activatorID \in ActorInputs :
        Call("Activate", Activate(ua, activatorID, now))

DoDisable ==
    \E disablerID \in ActorInputs, disabilityType \in DisabilityTypeInputs,
       reason \in ReasonInputs :
        Call("Disable", Disable(ua, disablerID, disabilityType, reason, now))

DoSetInactive ==
    \E userID \in ActorInputs, reason \in ReasonInputs :
        Call("SetInactive", SetInactive(ua, userID, reason, now))

DoSuspend ==
    \E userID \in ActorInputs, reason \in ReasonInputs :
        Call("Suspend", Suspend(ua, userID, reason, now))

DoBlock ==
    \E userID \in ActorInputs, reason \in ReasonInputs :
        Call("Block", Block(ua, userID, reason, now))

DoSetExpired ==
    \E userID \in ActorInputs, reason \in ReasonInputs :
        Call("SetExpired", SetExpired(ua, userID, reason, now))

DoSetViolation ==
    \E userID \in ActorInputs, reason \in ReasonInputs :
        Call("SetViolation", SetViolation(ua, userID, reason, now))

DoDisableManually ==
    \E userID \in ActorInputs, reason \in ReasonInputs :
        Call("DisableManually", DisableManually(ua, userID, reason, now))

DoReactivate ==
    \E reactivatorID \in ActorInputs :
        Call("Reactivate", Reactivate(ua, reactivatorID, now))

DoDelete ==
    \E deleterID \in ActorInputs : Call("Delete", Delete(ua, deleterID, now))

DoUpdateUsername ==
    \E newUsername \in NewUsernameInputs :
        Call("UpdateUsername", UpdateUsername(ua, newUsername, now))

DoUpdateEmail ==
    \E newEmail \in NewEmailInputs :
        Call("UpdateEmail", UpdateEmail(ua, newEmail, now))

DoUpdatePasswordHash ==
    \E hashedPassword \in NewHashInputs :
        Call("UpdatePasswordHash", UpdatePasswordHash(ua, hashedPassword, now))

DoUpdateType ==
    \E newType \in AccountTypeInputs :
        Call("UpdateType", UpdateType(ua, newType, now))

DoRecordSuccessfulLogin ==
    \E ipAddress \in IPInputs :
        Call("RecordSuccessfulLogin", RecordSuccessfulLogin(ua, ipAddress, now))

DoRecordFailedLogin ==
    /\ ua.FailedLoginAttempts < MaxFailed
    /\ \E ipAddress \in IPInputs, maxAttempts \in MaxAttemptsInputs,
          lockDuration \in LockDurationInputs :
           Call("RecordFailedLogin",
                RecordFailedLogin(ua, ipAddress, maxAttempts, lockDuration, now))

DoUnlockAccount == Call("UnlockAccount", UnlockAccount(ua, now))

\* the clock is non-decreasing: time passes between calls
Tick ==
    /\ now < MaxTime
    /\ now' = now + 1
    /\ UNCHANGED <<pc, ua, lastOp, everActive, failedCalls, inflight>>

\* Disable that does not assign the disability type
DisableWritesKeepType(disablerID, disabilityType, reason, t) ==
    << <<"Status", StatusDisabled>>,
       <<"IssuedReason", Some(reason)>>,
       <<"UpdatedAt", t>>,
       <<"LastActionBy", Some(disablerID)>> >>

\* the assignments of Disable after its checks, in program order
DisableWrites(disablerID, disabilityType, reason, t) ==
    << <<"Status", StatusDisabled>>,
       <<"DisabilityType", Some(disabilityType)>>,
       <<"IssuedReason", Some(reason)>>,
       <<"UpdatedAt", t>>,
       <<"LastActionBy", Some(disablerID)>> >>

\* the assignments of Reactivate after its checks, in program order
ReactivateWrites(reactivatorID, t) ==
    << <<"Status", StatusActive>>,
       <<"DisabilityType", None>>,
       <<"IssuedReason", None>>,
       <<"UpdatedAt", t>>,
       <<"LastActionBy", Some(reactivatorID)>> >>

\* the account after the first n assignments of writes
RECURSIVE ApplyWrites(_, _, _)
ApplyWrites(a, writes, n) ==
    IF n = 0 THEN a
    ELSE [ApplyWrites(a, writes, n - 1) EXCEPT ![writes[n][1]] = writes[n][2]]

\* an invocation that has passed its checks and has not made the last of
\* its n assignments
Inside(call, n) == call.at >= 1 /\ call.at <= n

\* the two invocations in flight have returned
Returned ==
    /\ inflight.running
    /\ inflight.Disable.at > Len(DisableWrites("", "", "", 0))
    /\ inflight.Reactivate.at > Len(ReactivateWrites("", 0))

\* two callers invoke Disable and Reactivate on the account without any
\* serialization between them
BeginConcurrent ==
    /\ pc = "live"
    /\ ~inflight.running
    /\ \E disablerID \in ActorInputs, disabilityType \in DisabilityTypeInputs,
          reason \in ReasonInputs, reactivatorID \in ActorInputs :
           inflight' = [NoCalls EXCEPT
                          !.running = TRUE,
                          !.onStatus = ua.Status,
                          !.onType = ua.DisabilityType,
                          !.Disable.disablerID = disablerID,
                          !.Disable.disabilityType = disabilityType,
                          !.Disable.reason = reason,
                          !.Reactivate.reactivatorID = reactivatorID]
    /\ UNCHANGED <<pc, ua, now, lastOp, everActive, failedCalls>>

\* the next step of the Disable in flight: its checks and its time.Now(),
\* which read the account and the clock as they are at that moment, or its
\* next assignment to a field
StepDisable ==
    /\ inflight.running
    /\ LET c == inflight.Disable
           w == DisableWrites(c.disablerID, c.disabilityType, c.reason, c.t)
           mixed == inflight.mixed
                    \/ Inside(inflight.Reactivate, Len(ReactivateWrites("", 0)))
       IN  /\ c.at <= Len(w)
           /\ IF c.at = 0
              THEN LET e == Disable(ua, c.disablerID, c.disabilityType,
                                    c.reason, now).err
                   IN  /\ ua' = ua
                       /\ inflight' = [inflight EXCEPT
                              !.mixed = mixed,
                              !.Disable.err = e,
                              !.Disable.t = now,
                              !.Disable.at = IF e = NoErr THEN 1 ELSE Len(w) + 1]
              ELSE /\ ua' = [ua EXCEPT ![w[c.at][1]] = w[c.at][2]]
                   /\ inflight' = [inflight EXCEPT
                          !.mixed = mixed,
                          !.Disable.at = c.at + 1]
    /\ UNCHANGED <<pc, now, lastOp, everActive, failedCalls>>

\* the next step of the Reactivate in flight
StepReactivate ==
    /\ inflight.running
    /\ LET c == inflight.Reactivate
           w == ReactivateWrites(c.reactivatorID, c.t)
           mixed == inflight.mixed
                    \/ Inside(inflight.Disable, Len(DisableWrites("", "", "", 0)))
       IN  /\ c.at <= Len(w)
           /\ IF c.at = 0
              THEN LET e == Reactivate(ua, c.reactivatorID, now).err
                   IN  /\ ua' = ua
                       /\ inflight' = [inflight EXCEPT
                              !.mixed = mixed,
                              !.Reactivate.err = e,
                              !.Reactivate.t = now,
                              !.Reactivate.at = IF e = NoErr THEN 1 ELSE Len(w) + 1]
              ELSE /\ ua' = [ua EXCEPT ![w[c.at][1]] = w[c.at][2]]
                   /\ inflight' = [inflight EXCEPT
                          !.mixed = mixed,
                          !.Reactivate.at = c.at + 1]
    /\ UNCHANGED <<pc, now, lastOp, everActive, failedCalls>>

\* a step of a run of bounded length
Counted(A) == steps < MaxSteps /\ steps' = steps + 1 /\ A

\* a step of a run of any length
Free(A) == A /\ UNCHANGED steps

\* every constructor and method, in any order, in runs of MaxSteps steps
Next ==
    \/ Counted(DoNewUserAccountWithHash)
    \/ Counted(DoNewUserAccountForTesting)
    \/ Counted(DoNewUserAccountForSelfRegistration)
    \/ Counted(DoVerify)
    \/ Counted(DoSelfVerify)
    \/ Counted(DoActivate)
    \/ Counted(DoDisable)
    \/ Counted(DoSetInactive)
    \/ Counted(DoSuspend)
    \/ Counted(DoBlock)
    \/ Counted(DoSetExpired)
    \/ Counted(DoSetViolation)
    \/ Counted(DoDisableManually)
    \/ Counted(DoReactivate)
    \/ Counted(DoDelete)
    \/ Counted(DoUpdateUsername)
    \/ Counted(DoUpdateEmail)
    \/ Counted(DoUpdatePasswordHash)
    \/ Counted(DoUpdateType)
    \/ Counted(DoRecordSuccessfulLogin)
    \/ Counted(DoRecordFailedLogin)
    \/ Counted(DoUnlockAccount)
    \/ Counted(Tick)

Spec == Init /\ [][Next]_vars

\* the lifecycle methods alone, in runs of any length
NextLifecycle ==
    \/ Free(DoNewUserAccountWithHash)
    \/ Free(DoNewUserAccountForTesting)
    \/ Free(DoNewUserAccountForSelfRegistration)
    \/ Free(DoVerify)
    \/ Free(DoSelfVerify)
    \/ Free(DoActivate)
    \/ Free(DoDisable)
    \/ Free(DoSetInactive)
    \/ Free(DoSuspend)
    \/ Free(DoBlock)
    \/ Free(DoSetExpired)
    \/ Free(DoSetViolation)
    \/ Free(DoDisableManually)
    \/ Free(DoReactivate)
    \/ Free(DoDelete)
    \/ Free(Tick)

SpecLifecycle == Init /\ [][NextLifecycle]_vars

\* login tracking on an account that is verified and deleted at any point
NextLogin ==
    \/ Free(DoNewUserAccountWithHash)
    \/ Free(DoVerify)
    \/ Free(DoDelete)
    \/ Free(DoRecordSuccessfulLogin)
    \/ Free(DoRecordFailedLogin)
    \/ Free(DoUnlockAccount)
    \/ Free(Tick)

SpecLogin == Init /\ [][NextLogin]_vars

\* the Update methods on an account that is verified at any point
NextIdentity ==
    \/ Free(DoNewUserAccountWithHash)
    \/ Free(DoNewUserAccountForTesting)
    \/ Free(DoNewUserAccountForSelfRegistration)
    \/ Free(DoSelfVerify)
    \/ Free(DoUpdateUsername)
    \/ Free(DoUpdateEmail)
    \/ Free(DoUpdatePasswordHash)
    \/ Free(DoUpdateType)
    \/ Free(Tick)

SpecIdentity == Init /\ [][NextIdentity]_vars

\* the status of a self-registered account under Verify, SelfVerify,
\* Disable, Activate, Reactivate and Delete, with UnlockAccount as a call
\* that is accepted in every status
NextStatus ==
    \/ Free(DoNewUserAccountForSelfRegistration)
    \/ Free(DoVerify)
    \/ Free(DoSelfVerify)
    \/ Free(DoDisable)
    \/ Free(DoActivate)
    \/ Free(DoReactivate)
    \/ Free(DoDelete)
    \/ Free(DoUnlockAccount)
    \/ Free(Tick)

SpecStatus == Init /\ [][NextStatus]_vars

\* login tracking and a change of type interleaved with the lifecycle of a
\* self-registered account: SelfVerify, Suspend, Reactivate
NextFrames ==
    \/ Free(DoNewUserAccountForSelfRegistration)
    \/ Free(DoSelfVerify)
    \/ Free(DoSuspend)
    \/ Free(DoReactivate)
    \/ Free(DoUpdateType)
    \/ Free(DoRecordFailedLogin)
    \/ Free(Tick)

SpecFrames == Init /\ [][NextFrames]_vars

\* Disable and Reactivate invoked by two callers at the same time on a
\* self-registered account that was verified and disabled one call at a time
NextConcurrent ==
    \/ Free(DoNewUserAccountForSelfRegistration)
    \/ Free(DoSelfVerify)
    \/ Free(DoSuspend)
    \/ Free(Tick)
    \/ Free(BeginConcurrent)
    \/ Free(StepDisable)
    \/ Free(StepReactivate)

SpecConcurrent == Init /\ [][NextConcurrent]_vars

-----------------------------------------------------------------------------
(* What every method would return if it were called now on account a with *)
(* each of the arguments above: records [op, r] with r = [ua, err].        *)

LifecycleResults(a, t) ==
    {[op |-> "Verify", r |-> Verify(a, id, t)] : id \in ActorInputs}
    \cup {[op |-> "SelfVerify", r |-> SelfVerify(a, t)]}
    \cup {[op |-> "Activate", r |-> Activate(a, id, t)] : id \in ActorInputs}
    \cup {[op |-> "Disable", r |-> Disable(a, x[1], x[2], x[3], t)] :
            x \in ActorInputs \X DisabilityTypeInputs \X ReasonInputs}
    \cup {[op |-> "SetInactive", r |-> SetInactive(a, x[1], x[2], t)] :
            x \in ActorInputs \X ReasonInputs}
    \cup {[op |-> "Suspend", r |-> Suspend(a, x[1], x[2], t)] :
            x \in ActorInputs \X ReasonInputs}
    \cup {[op |-> "Block", r |-> Block(a, x[1], x[2], t)] :
            x \in ActorInputs \X ReasonInputs}
    \cup {[op |-> "SetExpired", r |-> SetExpired(a, x[1], x[2], t)] :
            x \in ActorInputs \X ReasonInputs}
    \cup {[op |-> "SetViolation", r |-> SetViolation(a, x[1], x[2], t)] :
            x \in ActorInputs \X ReasonInputs}
    \cup {[op |-> "DisableManually", r |-> DisableManually(a, x[1], x[2], t)] :
            x \in ActorInputs \X ReasonInputs}
    \cup {[op |-> "Reactivate", r |-> Reactivate(a, id, t)] : id \in ActorInputs}
    \cup {[op |-> "Delete", r |-> Delete(a, id, t)] : id \in ActorInputs}

IdentityResults(a, t) ==
    {[op |-> "UpdateUsername", r |-> UpdateUsername(a, v, t)] :
            v \in NewUsernameInputs}
    \cup {[op |-> "UpdateEmail", r |-> UpdateEmail(a, v, t)] : v \in NewEmailInputs}
    \cup {[op |-> "UpdatePasswordHash", r |-> UpdatePasswordHash(a, v, t)] :
            v \in NewHashInputs}
    \cup {[op |-> "UpdateType", r |-> UpdateType(a, v, t)] : v \in AccountTypeInputs}

LoginResults(a, t) ==
    {[op |-> "RecordSuccessfulLogin", r |-> RecordSuccessfulLogin(a, ip, t)] :
            ip \in IPInputs}
    \cup {[op |-> "RecordFailedLogin",
           r |-> RecordFailedLogin(a, x[1], x[2], x[3], t)] :
            x \in IPInputs \X MaxAttemptsInputs \X LockDurationInputs}
    \cup {[op |-> "UnlockAccount", r |-> UnlockAccount(a, t)]}

MethodResults(a, t) ==
    LifecycleResults(a, t) \cup IdentityResults(a, t) \cup LoginResults(a, t)

\* s is empty or holds only white space
IsBlank(s) == \A i \in 1..Len(s) : Char(s, i) \in SpaceChars

Live == pc = "live"

-----------------------------------------------------------------------------
(* Properties.                                                             *)

\* C1: in every state reachable through the public methods, status is
\* Disabled if and only if disabilityType is present (also after Delete of a
\* Disabled account).
C1_DisabledIffDisabilityType ==
    Live => (ua.Status = StatusDisabled <=> ua.DisabilityType # None)

\* C2: Deleted is terminal.  No step leaves status Deleted; on a Deleted
\* account every lifecycle method (Verify, SelfVerify, Activate, Reactivate,
\* Disable, its wrappers, Delete) fails, and no method at all, whatever its
\* arguments, returns an account with another status.
C2_DeletedCallsKeepStatus ==
    (Live /\ ua.Status = StatusDeleted) =>
        /\ \A c \in LifecycleResults(ua, now) : c.r.err # NoErr
        /\ \A c \in MethodResults(ua, now) : c.r.ua.Status = StatusDeleted

C2_DeletedIsTerminal ==
    /\ []C2_DeletedCallsKeepStatus
    /\ [][(Live /\ ua.Status = StatusDeleted) => ua'.Status = StatusDeleted]_vars

\* an account deleted while Disabled, on which an Update or login-tracking
\* call still succeeds
C2_Witness ==
    /\ Live
    /\ ua.Status = StatusDeleted
    /\ ua.DisabilityType # None
    /\ \E c \in IdentityResults(ua, now) \cup LoginResults(ua, now) :
           c.r.err = NoErr /\ c.r.ua # ua

\* C3: isVerified is monotone (no step and no call resets it to false), and
\* whenever isVerified is true the status has been Active at some point.
C3_VerifiedStaysAndWasActive ==
    (Live /\ ua.IsVerified) =>
        /\ everActive
        /\ \A c \in MethodResults(ua, now) : c.r.ua.IsVerified

C3_IsVerifiedMonotone ==
    /\ []C3_VerifiedStaysAndWasActive
    /\ [][(Live /\ ua.IsVerified) => ua'.IsVerified]_vars

\* an account verified at one time and disabled at a later time
C3_Witness ==
    /\ Live
    /\ ua.IsVerified
    /\ ua.Status = StatusDisabled
    /\ ua.VerifiedAt # None
    /\ ua.UpdatedAt > ua.VerifiedAt[1]

\* C4: whenever a successful RecordFailedLogin call sets lockedUntil (the
\* incremented counter has reached maxAttempts), the stored lockedUntil is
\* strictly later than the time of the call, for every accepted combination
\* of arguments, zero and negative lock durations included.
C4_LockedUntilAfterCall ==
    Live =>
        \A ip \in IPInputs, m \in MaxAttemptsInputs, d \in LockDurationInputs :
            LET r == RecordFailedLogin(ua, ip, m, d, now)
            IN  (r.err = NoErr /\ r.ua.FailedLoginAttempts >= m) =>
                    /\ r.ua.LockedUntil # None
                    /\ r.ua.LockedUntil[1] > now

\* C5: createdAt <= updatedAt in every reachable state; every successful
\* mutating call (UnlockAccount included) sets updatedAt to the time of the
\* call, a failed call leaves it unchanged, and under the non-decreasing
\* clock updatedAt never moves backwards.
C5_UpdatedAtOfCalls ==
    Live =>
        /\ ua.CreatedAt <= ua.UpdatedAt
        /\ ua.UpdatedAt <= now
        /\ \A c \in MethodResults(ua, now) :
              IF c.r.err = NoErr
              THEN c.r.ua.UpdatedAt = now
              ELSE c.r.ua.UpdatedAt = ua.UpdatedAt

C5_UpdatedAtAdvances ==
    /\ []C5_UpdatedAtOfCalls
    /\ [][Live => ua.UpdatedAt <= ua'.UpdatedAt]_vars

\* an account unlocked at a time later than its creation
C5_Witness ==
    /\ Live
    /\ lastOp = "UnlockAccount"
    /\ ua.CreatedAt < ua.UpdatedAt
    /\ ua.UpdatedAt = now

\* C6: validate fully, then apply: in every reachable state a call of any
\* mutating method that returns an error leaves every field of the aggregate
\* as it was before the call.
C6_FailedCallChangesNothing ==
    Live => \A c \in MethodResults(ua, now) : c.r.err # NoErr => c.r.ua = ua

\* a disabled account on which Disable with an empty reason and
\* RecordFailedLogin with maxAttempts 0 are both rejected
C6_Witness ==
    /\ Live
    /\ ua.Status = StatusDisabled
    /\ \E c \in MethodResults(ua, now) :
          c.op = "Disable" /\ c.r.err = ErrEmptyReason
    /\ \E c \in MethodResults(ua, now) :
          c.op = "RecordFailedLogin" /\ c.r.err = ErrInvalidMaxAttempts

\* C7: every change of status made by any method is one of the edges
\* PendingVerification -> Active, Active -> Disabled, Disabled -> Active, or
\* X -> Deleted with X one of PendingVerification, Active, Disabled; no
\* method moves an account back to PendingVerification, and
\* PendingVerification -> Disabled is impossible.
C7_AllowedEdges ==
    {<<StatusPendingVerification, StatusActive>>,
     <<StatusActive, StatusDisabled>>,
     <<StatusDisabled, StatusActive>>,
     <<StatusPendingVerification, StatusDeleted>>,
     <<StatusActive, StatusDeleted>>,
     <<StatusDisabled, StatusDeleted>>}

C7_CallsFollowEdges ==
    Live =>
        \A c \in MethodResults(ua, now) :
            \/ c.r.ua.Status = ua.Status
            \/ <<ua.Status, c.r.ua.Status>> \in C7_AllowedEdges

C7_StatusEdges ==
    /\ []C7_CallsFollowEdges
    /\ [][Live => \/ ua'.Status = ua.Status
                  \/ <<ua.Status, ua'.Status>> \in C7_AllowedEdges]_vars

\* an account back in Active through Reactivate (the edge Disabled -> Active)
C7_Witness ==
    /\ Live
    /\ lastOp = "Reactivate"
    /\ ua.Status = StatusActive
    /\ ua.DisabilityType = None

\* C8: every account returned by a successful constructor is in the initial
\* state: status PendingVerification, isVerified false, disabilityType,
\* verifiedBy, verifiedAt, deletedAt, deletedBy and lockedUntil absent,
\* failedLoginAttempts 0, createdAt = updatedAt, and type and registeredBy
\* equal to the arguments (Membership and "self" for self registration).
C8_InitialState(a, accountType, registeredBy) ==
    /\ a.Status = StatusPendingVerification
    /\ a.IsVerified = FALSE
    /\ a.DisabilityType = None
    /\ a.VerifiedBy = None
    /\ a.VerifiedAt = None
    /\ a.DeletedAt = None
    /\ a.DeletedBy = None
    /\ a.LockedUntil = None
    /\ a.FailedLoginAttempts = 0
    /\ a.CreatedAt = a.UpdatedAt
    /\ a.Type = accountType
    /\ a.RegisteredBy = Some(registeredBy)

C8_ConstructedIsInitial ==
    /\ pc = "new" =>
          \A id \in IDInputs, username \in UsernameInputs, email \in EmailInputs,
             accountType \in AccountTypeInputs, registeredBy \in RegisteredByInputs :
              /\ \A hashedPassword \in HashInputs :
                    LET r == NewUserAccountWithHash(id, username, email,
                                 hashedPassword, accountType, registeredBy, now)
                        s == NewUserAccountForSelfRegistration(id, username,
                                 email, hashedPassword, now)
                    IN  /\ r.err = NoErr =>
                              C8_InitialState(r.ua, accountType, registeredBy)
                        /\ s.err = NoErr =>
                              C8_InitialState(s.ua, TypeMembership, SelfRegistration)
              /\ \A rawPassword \in PasswordInputs :
                    LET r == NewUserAccountForTesting(id, username, email,
                                 rawPassword, accountType, registeredBy, now)
                    IN  r.err = NoErr =>
                            C8_InitialState(r.ua, accountType, registeredBy)
    /\ (Live /\ lastOp \in {"NewUserAccountWithHash", "NewUserAccountForTesting",
                            "NewUserAccountForSelfRegistration"}) =>
          C8_InitialState(ua, ua.Type, ua.RegisteredBy[1])

\* a self-registered account just returned by its constructor
C8_Witness ==
    /\ Live
    /\ lastOp = "NewUserAccountForSelfRegistration"
    /\ ua.Type = TypeMembership
    /\ ua.RegisteredBy = Some(SelfRegistration)
    /\ ua.Status = StatusPendingVerification

\* C9: Verify(verifierID) succeeds exactly when status is
\* PendingVerification, isVerified is false and verifierID is non-blank; on
\* success status becomes Active, isVerified true, verifiedBy and
\* lastActionBy equal verifierID, verifiedAt is set, and no other field
\* except updatedAt changes.
C9_VerifyContract ==
    Live =>
        \A verifierID \in ActorInputs :
            LET r == Verify(ua, verifierID, now)
            IN  /\ r.err = NoErr <=>
                      /\ ua.Status = StatusPendingVerification
                      /\ ~ua.IsVerified
                      /\ ~IsBlank(verifierID)
                /\ r.err = NoErr =>
                      /\ r.ua.Status = StatusActive
                      /\ r.ua.IsVerified
                      /\ r.ua.VerifiedBy = Some(verifierID)
                      /\ r.ua.LastActionBy = Some(verifierID)
                      /\ r.ua.VerifiedAt # None
                      /\ [r.ua EXCEPT !.Status = ua.Status,
                                      !.IsVerified = ua.IsVerified,
                                      !.VerifiedBy = ua.VerifiedBy,
                                      !.LastActionBy = ua.LastActionBy,
                                      !.VerifiedAt = ua.VerifiedAt,
                                      !.UpdatedAt = ua.UpdatedAt] = ua

\* an account verified by admin-2 some time after its construction
C9_Witness ==
    /\ Live
    /\ lastOp = "Verify"
    /\ ua.Status = StatusActive
    /\ ua.VerifiedBy = Some("admin-2")
    /\ ua.CreatedAt < ua.UpdatedAt

\* C10 (as claimed): a second Verify, after a first successful Verify on a
\* freshly constructed account, fails with the AlreadyVerified error
\* ("user account is already verified") and changes nothing.
C10_SecondVerifyAlreadyVerified ==
    (Live /\ lastOp = "Verify") =>
        \A verifierID \in ActorInputs :
            LET r == Verify(ua, verifierID, now)
            IN  r.err = ErrAlreadyVerified /\ r.ua = ua

\* C10 (amended): a second Verify, after a first successful Verify on a
\* freshly constructed account, fails with the NotPending error
\* ("user account is not pending verification") and changes nothing.
C10_SecondVerifyNotPending ==
    (Live /\ lastOp = "Verify") =>
        \A verifierID \in ActorInputs :
            LET r == Verify(ua, verifierID, now)
            IN  r.err = ErrNotPending /\ r.ua = ua

\* an account whose first Verify succeeded, at a later time of the clock
C10_Witness ==
    /\ Live
    /\ lastOp = "Verify"
    /\ ua.IsVerified
    /\ ua.VerifiedAt # None
    /\ ua.VerifiedAt[1] < now

\* C11: on a pending, unverified account SelfVerify succeeds if and only if
\* type is Membership at the time of the call; for Internal, External,
\* Partner and Developer it fails with NotAllowedForType and leaves the state
\* unchanged.  On success the effect equals that of Verify with verifier
\* "self": status Active, isVerified true, verifiedBy = lastActionBy = "self".
C11_SelfVerifyOnlyMembership ==
    (Live /\ ua.Status = StatusPendingVerification /\ ~ua.IsVerified) =>
        LET r == SelfVerify(ua, now)
        IN  /\ r.err = NoErr <=> ua.Type = TypeMembership
            /\ ua.Type \in {TypeInternal, TypeExternal, TypePartner, TypeDeveloper} =>
                  r.err = ErrSelfVerifyNotAllowed /\ r.ua = ua
            /\ r.err = NoErr =>
                  /\ r.ua = Verify(ua, SelfRegistration, now).ua
                  /\ r.ua.Status = StatusActive
                  /\ r.ua.IsVerified
                  /\ r.ua.VerifiedBy = Some(SelfRegistration)
                  /\ r.ua.LastActionBy = Some(SelfRegistration)

\* an account registered by an administrator that verified itself some
\* time after its construction
C11_Witness ==
    /\ Live
    /\ lastOp = "SelfVerify"
    /\ ua.Type = TypeMembership
    /\ ua.RegisteredBy = Some("admin-1")
    /\ ua.VerifiedBy = Some(SelfRegistration)
    /\ ua.CreatedAt < ua.UpdatedAt

\* C12: for every disability type T, on an account Disabled with
\* disabilityType T, Disable(actor, T, reason) with any actor and any reason
\* (and the wrapper of T likewise) fails with AlreadySameDisability, and
\* issuedReason, lastActionBy, disabilityType and updatedAt, like every other
\* field, keep the values of the earlier call.
C12_WrapperOf ==
    [op \in {"SetInactive", "Suspend", "Block", "SetExpired", "SetViolation",
             "DisableManually"} |->
        CASE op = "SetInactive" -> DisabilityTypeInactive
          [] op = "Suspend" -> DisabilityTypeSuspended
          [] op = "Block" -> DisabilityTypeBlocked
          [] op = "SetExpired" -> DisabilityTypeExpired
          [] op = "SetViolation" -> DisabilityTypeViolation
          [] op = "DisableManually" -> DisabilityTypeManual]

C12_SameTypeRejected ==
    (Live /\ ua.Status = StatusDisabled /\ ua.DisabilityType # None) =>
        /\ \A actor \in ActorInputs, reason \in ReasonInputs :
              LET r == Disable(ua, actor, ua.DisabilityType[1], reason, now)
              IN  /\ r.err = ErrAlreadySameDisability
                  /\ r.ua = ua
        /\ \A c \in LifecycleResults(ua, now) :
              (/\ c.op \in DOMAIN C12_WrapperOf
               /\ C12_WrapperOf[c.op] = ua.DisabilityType[1]) =>
                  /\ c.r.err = ErrAlreadySameDisability
                  /\ c.r.ua = ua

\* an account blocked at an earlier time with the reason "abuse"
C12_Witness ==
    /\ Live
    /\ ua.Status = StatusDisabled
    /\ ua.DisabilityType = Some(DisabilityTypeBlocked)
    /\ ua.IssuedReason = Some("abuse")
    /\ ua.UpdatedAt < now

\* C13: for distinct valid disability types T1 and T2, on an account
\* Disabled with T1, Disable(actor, T2, reason) with non-blank actor and
\* reason succeeds without a reactivation in between: status stays Disabled
\* and disabilityType, issuedReason and lastActionBy become T2, reason and
\* actor (updatedAt the time of the call, nothing else changes).
C13_OtherTypeReplaces ==
    (Live /\ ua.Status = StatusDisabled /\ ua.DisabilityType # None) =>
        \A actor \in ActorInputs, reason \in ReasonInputs,
           T2 \in DisabilityTypeInputs :
            (/\ validateDisabilityType(T2) = NoErr
             /\ T2 # ua.DisabilityType[1]
             /\ ~IsBlank(actor)
             /\ ~IsBlank(reason)) =>
                LET r == Disable(ua, actor, T2, reason, now)
                IN  /\ r.err = NoErr
                    /\ r.ua.Status = StatusDisabled
                    /\ r.ua = [ua EXCEPT !.DisabilityType = Some(T2),
                                         !.IssuedReason = Some(reason),
                                         !.LastActionBy = Some(actor),
                                         !.UpdatedAt = now]

\* a blocked account on which Suspend by another administrator succeeds
C13_Witness ==
    /\ Live
    /\ lastOp = "Block"
    /\ ua.Status = StatusDisabled
    /\ ua.LastActionBy = Some("admin-1")
    /\ \E c \in LifecycleResults(ua, now) :
          /\ c.op = "Suspend"
          /\ c.r.err = NoErr
          /\ c.r.ua.DisabilityType = Some(DisabilityTypeSuspended)
          /\ c.r.ua.LastActionBy = Some("admin-2")

\* C14: Disable fails with CannotDisableDeleted when status is Deleted and
\* with CannotDisableUnverified when status is PendingVerification, whatever
\* the other arguments are; the failures are reported with the precedence
\* CannotDisableDeleted, CannotDisableUnverified, AlreadySameDisability,
\* EmptyActor, EmptyReason, InvalidDisabilityType; on success from Active or
\* Disabled the result is status Disabled with one of the six disability
\* types.
C14_DisablePrecedence ==
    Live =>
        \A actor \in ActorInputs, T \in DisabilityTypeInputs,
           reason \in ReasonInputs :
            LET r == Disable(ua, actor, T, reason, now)
                stateOk == ua.Status \notin {StatusDeleted,
                                             StatusPendingVerification}
                sameType == /\ ua.Status = StatusDisabled
                            /\ ua.DisabilityType = Some(T)
            IN  /\ ua.Status = StatusDeleted => r.err = ErrCannotDisableDeleted
                /\ ua.Status = StatusPendingVerification =>
                      r.err = ErrCannotDisableUnverified
                /\ r.err = ErrAlreadySameDisability <=> (stateOk /\ sameType)
                /\ r.err = ErrEmptyDisabler <=>
                      (stateOk /\ ~sameType /\ IsBlank(actor))
                /\ r.err = ErrEmptyReason <=>
                      (stateOk /\ ~sameType /\ ~IsBlank(actor) /\ IsBlank(reason))
                /\ r.err = ErrInvalidDisabilityType <=>
                      /\ stateOk /\ ~sameType
                      /\ ~IsBlank(actor) /\ ~IsBlank(reason)
                      /\ validateDisabilityType(T) # NoErr
                /\ r.err = NoErr =>
                      /\ ua.Status \in {StatusActive, StatusDisabled}
                      /\ r.ua.Status = StatusDisabled
                      /\ r.ua.DisabilityType # None
                      /\ r.ua.DisabilityType[1] \in
                            {DisabilityTypeInactive, DisabilityTypeSuspended,
                             DisabilityTypeBlocked, DisabilityTypeManual,
                             DisabilityTypeExpired, DisabilityTypeViolation}

\* an account deleted while disabled manually: Disable with a blank actor,
\* an empty reason and an unknown type still reports CannotDisableDeleted
C14_Witness ==
    /\ Live
    /\ ua.Status = StatusDeleted
    /\ ua.DisabilityType = Some(DisabilityTypeManual)
    /\ Disable(ua, " ", "invalid_type", "", now).err = ErrCannotDisableDeleted

\* C15: Activate(actor) and Reactivate(actor) succeed exactly when status is
\* Disabled and actor is non-blank; on success status is Active,
\* disabilityType and issuedReason are absent and lastActionBy = actor; in
\* every other status they fail with NotDisabled, whatever the actor is
\* (NotDisabled is checked before EmptyActor), and change nothing.
C15_ActivateContract ==
    Live =>
        \A actor \in ActorInputs :
            LET r == Activate(ua, actor, now)
                s == Reactivate(ua, actor, now)
            IN  /\ r.err = NoErr <=> (ua.Status = StatusDisabled /\ ~IsBlank(actor))
                /\ s.err = NoErr <=> (ua.Status = StatusDisabled /\ ~IsBlank(actor))
                /\ r.err = NoErr =>
                      /\ r.ua.Status = StatusActive
                      /\ r.ua.DisabilityType = None
                      /\ r.ua.IssuedReason = None
                      /\ r.ua.LastActionBy = Some(actor)
                /\ s.err = NoErr =>
                      /\ s.ua.Status = StatusActive
                      /\ s.ua.DisabilityType = None
                      /\ s.ua.IssuedReason = None
                      /\ s.ua.LastActionBy = Some(actor)
                /\ ua.Status # StatusDisabled =>
                      /\ r.err = ErrNotDisabled /\ r.ua = ua
                      /\ s.err = ErrNotDisabledReactivate /\ s.ua = ua
                /\ (ua.Status = StatusDisabled /\ IsBlank(actor)) =>
                      /\ r.err = ErrEmptyActivator /\ r.ua = ua
                      /\ s.err = ErrEmptyReactivator /\ s.ua = ua

\* an account activated by admin-2 after admin-1 had disabled it
C15_Witness ==
    /\ Live
    /\ lastOp = "Activate"
    /\ ua.Status = StatusActive
    /\ ua.LastActionBy = Some("admin-2")
    /\ ua.VerifiedBy = Some("admin-1")
    /\ ua.IssuedReason = None

\* C16: from every status other than Deleted (PendingVerification, Active,
\* Disabled, locked or not), Delete(actor) with a non-blank actor succeeds:
\* status becomes Deleted, deletedAt is set, deletedBy = lastActionBy =
\* actor; with a blank actor it fails with EmptyActor and the account stays
\* non-deleted.
C16_LoginVariants ==
    {ua} \cup {c.r.ua : c \in LoginResults(ua, now)}

C16_DeleteFromAnyStatus ==
    (Live /\ ua.Status # StatusDeleted) =>
        \A a \in C16_LoginVariants, actor \in ActorInputs :
            LET r == Delete(a, actor, now)
            IN  IF IsBlank(actor)
                THEN /\ r.err = ErrEmptyDeleter
                     /\ r.ua = a
                     /\ r.ua.Status # StatusDeleted
                ELSE /\ r.err = NoErr
                     /\ r.ua.Status = StatusDeleted
                     /\ r.ua.DeletedAt = Some(now)
                     /\ r.ua.DeletedBy = Some(actor)
                     /\ r.ua.LastActionBy = Some(actor)

\* an account deleted by admin-2 while it was still pending verification
C16_Witness ==
    /\ Live
    /\ lastOp = "Delete"
    /\ ua.Status = StatusDeleted
    /\ ~ua.IsVerified
    /\ ua.DeletedBy = Some("admin-2")
    /\ ua.DeletedAt = Some(now)

\* C17: on an already Deleted account every further Delete call, with the
\* same, a different or a blank actor, fails with AlreadyDeleted and
\* modifies no field: deletedAt, deletedBy, lastActionBy and updatedAt keep
\* the values written by the first successful Delete.
C17_SecondDeleteRejected ==
    (Live /\ ua.Status = StatusDeleted) =>
        \A actor \in ActorInputs :
            LET r == Delete(ua, actor, now)
            IN  /\ r.err = ErrAlreadyDeleted
                /\ r.ua = ua

\* an account deleted by admin-1 at an earlier time
C17_Witness ==
    /\ Live
    /\ lastOp = "Delete"
    /\ ua.Status = StatusDeleted
    /\ ua.DeletedBy = Some("admin-1")
    /\ ua.DeletedAt # None
    /\ ua.DeletedAt[1] < now
    /\ ua.UpdatedAt = ua.DeletedAt[1]

\* C18: starting from failedLoginAttempts = 0, after maxAttempts successful
\* RecordFailedLogin calls made with the same maxAttempts (for one, 3 calls
\* with maxAttempts = 3), IsLocked() is true and CanLogin() is false
\* immediately afterwards, also when status is Active and isVerified is
\* true; before the maxAttempts-th call lockedUntil is still absent.
RECURSIVE C18_AfterFailedLogins(_, _, _, _, _, _)
C18_AfterFailedLogins(a, n, ip, maxAttempts, lockDuration, t) ==
    IF n = 0 THEN a
    ELSE C18_AfterFailedLogins(
             RecordFailedLogin(a, ip, maxAttempts, lockDuration, t).ua,
             n - 1, ip, maxAttempts, lockDuration, t)

C18_LockedAfterMaxAttempts ==
    (Live /\ ua.FailedLoginAttempts = 0) =>
        \A maxAttempts \in 1..(MaxFailed + 1), lockDuration \in LockDurationInputs :
            LET ip == "192.168.1.1"
                before == C18_AfterFailedLogins(ua, maxAttempts - 1, ip,
                                                maxAttempts, lockDuration, now)
                after == C18_AfterFailedLogins(ua, maxAttempts, ip,
                                               maxAttempts, lockDuration, now)
            IN  /\ before.LockedUntil = None
                /\ after.FailedLoginAttempts = maxAttempts
                /\ IsLocked(after, now)
                /\ ~CanLogin(after, now)

\* C19: in every reachable state a successful RecordSuccessfulLogin(ip) and
\* any UnlockAccount() call leave failedLoginAttempts = 0 and lockedUntil
\* absent, so IsLocked() is false right after (and at any later time);
\* RecordSuccessfulLogin also sets lastLoginAt and lastLoginIP = ip and
\* fails with EmptyIP, state unchanged, for a blank ip; UnlockAccount never
\* fails.
C19_LoginAndUnlockClearLock ==
    Live =>
        /\ \A ip \in IPInputs :
              LET r == RecordSuccessfulLogin(ua, ip, now)
              IN  IF IsBlank(ip)
                  THEN r.err = ErrEmptyIP /\ r.ua = ua
                  ELSE /\ r.err = NoErr
                       /\ r.ua.FailedLoginAttempts = 0
                       /\ r.ua.LockedUntil = None
                       /\ \A t \in now..MaxTime : ~IsLocked(r.ua, t)
                       /\ r.ua.LastLoginAt = Some(now)
                       /\ r.ua.LastLoginIP = Some(ip)
        /\ LET u == UnlockAccount(ua, now)
           IN  /\ u.err = NoErr
               /\ u.ua.FailedLoginAttempts = 0
               /\ u.ua.LockedUntil = None
               /\ \A t \in now..MaxTime : ~IsLocked(u.ua, t)

\* a locked account with failed logins on record, on which a successful
\* login and an unlock both lift the lock
C19_Witness ==
    /\ Live
    /\ IsLocked(ua, now)
    /\ ua.FailedLoginAttempts > 0
    /\ RecordSuccessfulLogin(ua, "192.168.1.1", now).err = NoErr
    /\ ~IsLocked(RecordSuccessfulLogin(ua, "192.168.1.1", now).ua, now)
    /\ ~IsLocked(UnlockAccount(ua, now).ua, now)

\* C20: each successful RecordFailedLogin(ip, maxAttempts, lockDuration)
\* increments failedLoginAttempts by exactly 1 and sets lastFailedLoginIP =
\* ip; it writes lockedUntil = now + lockDuration if and only if the
\* incremented count >= maxAttempts and otherwise leaves lockedUntil
\* untouched; failedLoginAttempts is never negative and always equals the
\* number of successful RecordFailedLogin calls since the last successful
\* RecordSuccessfulLogin or UnlockAccount (or since construction).  A blank
\* ip or maxAttempts <= 0 fails without incrementing.
C20_FailedLoginCounts ==
    Live =>
        /\ ua.FailedLoginAttempts >= 0
        /\ ua.FailedLoginAttempts = failedCalls
        /\ \A ip \in IPInputs, maxAttempts \in MaxAttemptsInputs,
              lockDuration \in LockDurationInputs :
              LET r == RecordFailedLogin(ua, ip, maxAttempts, lockDuration, now)
              IN  IF IsBlank(ip) \/ maxAttempts <= 0
                  THEN /\ r.err = (IF IsBlank(ip) THEN ErrEmptyIP
                                   ELSE ErrInvalidMaxAttempts)
                       /\ r.ua.FailedLoginAttempts = ua.FailedLoginAttempts
                       /\ r.ua = ua
                  ELSE /\ r.err = NoErr
                       /\ r.ua.FailedLoginAttempts = ua.FailedLoginAttempts + 1
                       /\ r.ua.LastFailedLoginIP = Some(ip)
                       /\ r.ua.LockedUntil =
                             IF ua.FailedLoginAttempts + 1 >= maxAttempts
                             THEN Some(now + lockDuration)
                             ELSE ua.LockedUntil

\* one failed login recorded after an earlier successful login had reset
\* the counter, not enough to lock
C20_Witness ==
    /\ Live
    /\ lastOp = "RecordFailedLogin"
    /\ failedCalls = 1
    /\ ua.FailedLoginAttempts = 1
    /\ ua.LastLoginAt # None
    /\ ua.LastFailedLoginAttempt # None
    /\ ua.LastLoginAt[1] < ua.LastFailedLoginAttempt[1]
    /\ ua.LockedUntil = None

\* C21: in every reachable state and at every clock value, CanLogin() =
\* (status = Active and isVerified and not IsLocked()) and IsLocked() =
\* (lockedUntil present and now < lockedUntil), so a lock stops blocking
\* login exactly when the clock reaches lockedUntil.
C21_Clock == now..(MaxTime + 2)

C21_CanLoginIsLocked ==
    Live =>
        \A t \in C21_Clock :
            /\ CanLogin(ua, t) <=>
                  (ua.Status = StatusActive /\ ua.IsVerified /\ ~IsLocked(ua, t))
            /\ IsLocked(ua, t) <=>
                  (ua.LockedUntil # None /\ t < ua.LockedUntil[1])
            /\ (ua.Status = StatusActive /\ ua.IsVerified /\ ua.LockedUntil # None) =>
                  (CanLogin(ua, t) <=> t >= ua.LockedUntil[1])

\* an active, verified account whose lock of one tick has just run out
C21_Witness ==
    /\ Live
    /\ ua.Status = StatusActive
    /\ ua.IsVerified
    /\ ua.LockedUntil = Some(now)
    /\ ua.UpdatedAt < now
    /\ CanLogin(ua, now)
    /\ ~CanLogin(ua, ua.UpdatedAt)

\* C22: UpdateUsername and UpdateEmail reject a new value that, after
\* normalization (trim for the username; lower-case and trim for the email),
\* equals the current value: the call fails with NoChange and leaves the
\* field and updatedAt unchanged; an invalid value fails with the error of
\* its value object; a valid different value replaces the field with its
\* normalized form.
C22_UpdateUsernameEmail ==
    Live =>
        /\ \A v \in NewUsernameInputs :
              LET r == UpdateUsername(ua, v, now)
                  e == NewUsername(v).err
              IN  IF e # NoErr THEN r.err = e /\ r.ua = ua
                  ELSE IF TrimSpace(v) = ua.Username
                  THEN r.err = ErrSameUsername /\ r.ua = ua
                  ELSE /\ r.err = NoErr
                       /\ r.ua = [ua EXCEPT !.Username = TrimSpace(v),
                                            !.UpdatedAt = now]
        /\ \A v \in NewEmailInputs :
              LET r == UpdateEmail(ua, v, now)
                  e == NewEmail(v).err
              IN  IF e # NoErr THEN r.err = e /\ r.ua = ua
                  ELSE IF TrimSpace(ToLower(v)) = ua.Email
                  THEN r.err = ErrSameEmail /\ r.ua = ua
                  ELSE /\ r.err = NoErr
                       /\ r.ua = [ua EXCEPT !.Email = TrimSpace(ToLower(v)),
                                            !.UpdatedAt = now]

\* an account whose username and email were both replaced; its old values
\* are accepted again, its new ones rejected in any spelling
C22_Witness ==
    /\ Live
    /\ ua.Username = "new_user1"
    /\ ua.Email = "new@example.org"
    /\ UpdateUsername(ua, " testuser ", now).err = NoErr
    /\ UpdateEmail(ua, "new@example.org", now).err = ErrSameEmail

\* C23: UpdatePasswordHash(value) with a value equal to the current password
\* hash of the account is rejected (NoChange) and leaves passwordHash and
\* updatedAt unchanged.
C23_SamePasswordHashRejected ==
    Live =>
        \A v \in NewHashInputs :
            v = ua.PasswordHash =>
                LET r == UpdatePasswordHash(ua, v, now)
                IN  /\ r.err # NoErr
                    /\ r.ua.PasswordHash = ua.PasswordHash
                    /\ r.ua.UpdatedAt = ua.UpdatedAt

\* C24: UpdateType(newType) fails with NoChange when newType equals the
\* current type and with InvalidType when newType is outside Internal,
\* External, Membership, Partner, Developer; otherwise it replaces type.
\* With the validation of the constructors this keeps type one of the five
\* account types in every reachable state.
C24_AccountTypes ==
    {TypeInternal, TypeExternal, TypeMembership, TypePartner, TypeDeveloper}

C24_UpdateTypeContract ==
    Live =>
        /\ ua.Type \in C24_AccountTypes
        /\ \A newType \in AccountTypeInputs :
              LET r == UpdateType(ua, newType, now)
              IN  IF newType = ua.Type
                  THEN r.err = ErrSameType /\ r.ua = ua
                  ELSE IF newType \notin C24_AccountTypes
                  THEN r.err = ErrInvalidAccountType /\ r.ua = ua
                  ELSE /\ r.err = NoErr
                       /\ r.ua = [ua EXCEPT !.Type = newType, !.UpdatedAt = now]

\* a self-registered (Membership) account turned into a Developer account
C24_Witness ==
    /\ Live
    /\ lastOp = "UpdateType"
    /\ ua.Type = TypeDeveloper
    /\ ua.RegisteredBy = Some(SelfRegistration)

\* C25: each method invocation uses a single now for all time fields it
\* writes: after a successful Verify or SelfVerify verifiedAt = updatedAt;
\* after Delete deletedAt = updatedAt; after RecordSuccessfulLogin
\* lastLoginAt = updatedAt; after RecordFailedLogin lastFailedLoginAttempt =
\* updatedAt and, when a lock is set, lockedUntil = updatedAt + lockDuration.
C25_SingleNow ==
    Live =>
        /\ \A c \in MethodResults(ua, now) :
              c.r.err = NoErr =>
                  /\ c.op \in {"Verify", "SelfVerify"} =>
                        c.r.ua.VerifiedAt = Some(c.r.ua.UpdatedAt)
                  /\ c.op = "Delete" =>
                        c.r.ua.DeletedAt = Some(c.r.ua.UpdatedAt)
                  /\ c.op = "RecordSuccessfulLogin" =>
                        c.r.ua.LastLoginAt = Some(c.r.ua.UpdatedAt)
                  /\ c.op = "RecordFailedLogin" =>
                        c.r.ua.LastFailedLoginAttempt = Some(c.r.ua.UpdatedAt)
        /\ \A ip \in IPInputs, maxAttempts \in MaxAttemptsInputs,
              lockDuration \in LockDurationInputs :
              LET r == RecordFailedLogin(ua, ip, maxAttempts, lockDuration, now)
              IN  (r.err = NoErr /\ r.ua.FailedLoginAttempts >= maxAttempts) =>
                      r.ua.LockedUntil = Some(r.ua.UpdatedAt + lockDuration)
        /\ lastOp \in {"Verify", "SelfVerify"} =>
              ua.VerifiedAt = Some(ua.UpdatedAt)
        /\ lastOp = "Delete" => ua.DeletedAt = Some(ua.UpdatedAt)
        /\ lastOp = "RecordSuccessfulLogin" => ua.LastLoginAt = Some(ua.UpdatedAt)
        /\ lastOp = "RecordFailedLogin" =>
              ua.LastFailedLoginAttempt = Some(ua.UpdatedAt)

\* a failed login recorded one tick after construction that set a lock of
\* one tick
C25_Witness ==
    /\ Live
    /\ lastOp = "RecordFailedLogin"
    /\ ua.CreatedAt < ua.UpdatedAt
    /\ ua.LastFailedLoginAttempt = Some(ua.UpdatedAt)
    /\ ua.LockedUntil = Some(ua.UpdatedAt + 1)

\* C26: each convenience wrapper is equivalent to Disable with its bound
\* type: in every reachable state, for every actor and reason, SetInactive,
\* Suspend, Block, SetExpired, SetViolation and DisableManually return the
\* same result and produce the same post-state as Disable(actor, Inactive /
\* Suspended / Blocked / Expired / Violation / Manual, reason), and after a
\* success the matching predicate among IsInactive, IsSuspended, IsBlocked,
\* IsExpired, HasViolation, IsManuallyDisabled is the only one that is true.
C26_Predicates(a) ==
    [SetInactive |-> IsInactive(a), Suspend |-> IsSuspended(a),
     Block |-> IsBlocked(a), SetExpired |-> IsExpired(a),
     SetViolation |-> HasViolation(a), DisableManually |-> IsManuallyDisabled(a)]

C26_WrappersAreDisable ==
    Live =>
        /\ \A actor \in ActorInputs, reason \in ReasonInputs :
              /\ SetInactive(ua, actor, reason, now) =
                    Disable(ua, actor, DisabilityTypeInactive, reason, now)
              /\ Suspend(ua, actor, reason, now) =
                    Disable(ua, actor, DisabilityTypeSuspended, reason, now)
              /\ Block(ua, actor, reason, now) =
                    Disable(ua, actor, DisabilityTypeBlocked, reason, now)
              /\ SetExpired(ua, actor, reason, now) =
                    Disable(ua, actor, DisabilityTypeExpired, reason, now)
              /\ SetViolation(ua, actor, reason, now) =
                    Disable(ua, actor, DisabilityTypeViolation, reason, now)
              /\ DisableManually(ua, actor, reason, now) =
                    Disable(ua, actor, DisabilityTypeManual, reason, now)
        /\ \A c \in LifecycleResults(ua, now) :
              (c.op \in DOMAIN C26_Predicates(ua) /\ c.r.err = NoErr) =>
                  \A p \in DOMAIN C26_Predicates(ua) :
                      C26_Predicates(c.r.ua)[p] <=> (p = c.op)

\* an account suspended through the wrapper, some time after verification
C26_Witness ==
    /\ Live
    /\ lastOp = "Suspend"
    /\ IsSuspended(ua)
    /\ ~IsBlocked(ua)
    /\ ua.VerifiedAt # None
    /\ ua.VerifiedAt[1] < ua.UpdatedAt

\* C27: NewUserAccountForSelfRegistration produces exactly the account
\* NewUserAccountWithHash would produce with type Membership and
\* registeredBy "self": the result has type Membership, IsSelfRegistered()
\* is true, and SelfVerify on it, while it is still pending and of type
\* Membership, succeeds.
C27_SelfRegistration ==
    /\ pc = "new" =>
          \A id \in IDInputs, username \in UsernameInputs, email \in EmailInputs,
             hashedPassword \in HashInputs :
              LET r == NewUserAccountForSelfRegistration(id, username, email,
                           hashedPassword, now)
              IN  /\ r = NewUserAccountWithHash(id, username, email,
                             hashedPassword, TypeMembership, "self", now)
                  /\ r.err = NoErr =>
                        /\ r.ua.Type = TypeMembership
                        /\ IsSelfRegistered(r.ua)
                        /\ \A t \in now..MaxTime : SelfVerify(r.ua, t).err = NoErr
    /\ (Live /\ lastOp = "NewUserAccountForSelfRegistration") =>
          /\ ua.Type = TypeMembership
          /\ IsSelfRegistered(ua)
    /\ (/\ Live
        /\ IsSelfRegistered(ua)
        /\ ua.Status = StatusPendingVerification
        /\ ua.Type = TypeMembership) => SelfVerify(ua, now).err = NoErr

\* a self-registered account, still pending some time after its
\* construction and with a new username, on which SelfVerify succeeds
C27_Witness ==
    /\ Live
    /\ IsSelfRegistered(ua)
    /\ ua.Type = TypeMembership
    /\ ua.Status = StatusPendingVerification
    /\ ua.Username = "new_user1"
    /\ ua.CreatedAt < now
    /\ SelfVerify(ua, now).err = NoErr

\* C28: NewUserAccountWithHash returns no account and an error whenever an
\* input is invalid, reporting the first failure in the order: blank id,
\* invalid username (with the error of the username), invalid email, blank
\* password hash, account type outside the five types, blank registeredBy;
\* it returns an account only when all six checks pass.
C28_ConstructorValidation ==
    pc = "new" =>
        \A id \in IDInputs, username \in UsernameInputs, email \in EmailInputs,
           hashedPassword \in HashInputs, accountType \in AccountTypeInputs,
           registeredBy \in RegisteredByInputs :
            LET r == NewUserAccountWithHash(id, username, email, hashedPassword,
                                            accountType, registeredBy, now)
                idOk == ~IsBlank(id)
                nameOk == NewUsername(username).err = NoErr
                emailOk == NewEmail(email).err = NoErr
                hashOk == ~IsBlank(hashedPassword)
                typeOk == accountType \in C24_AccountTypes
                byOk == ~IsBlank(registeredBy)
            IN  /\ r.err = NoErr <=>
                      (idOk /\ nameOk /\ emailOk /\ hashOk /\ typeOk /\ byOk)
                /\ r.err # NoErr => r.ua = NilAccount
                /\ r.err = NoErr => r.ua # NilAccount
                /\ ~idOk => r.err = ErrEmptyID
                /\ (idOk /\ ~nameOk) => r.err = NewUsername(username).err
                /\ (idOk /\ nameOk /\ ~emailOk) => r.err = ErrInvalidEmail
                /\ (idOk /\ nameOk /\ emailOk /\ ~hashOk) =>
                      r.err = ErrEmptyPasswordHash
                /\ (idOk /\ nameOk /\ emailOk /\ hashOk /\ ~typeOk) =>
                      r.err = ErrInvalidAccountType
                /\ (idOk /\ nameOk /\ emailOk /\ hashOk /\ typeOk /\ ~byOk) =>
                      r.err = ErrEmptyRegisteredBy

\* before construction: a call in which every argument is invalid reports
\* the blank id, and with a valid id the error of the username
C28_Witness ==
    /\ pc = "new"
    /\ NewUserAccountWithHash(" ", "ab", "userexample.com", "  ", "invalid",
                              "", now).err = ErrEmptyID
    /\ NewUserAccountWithHash("user-id-1", "ab", "userexample.com", "  ",
                              "invalid", "", now).err = ErrUsernameTooShort
    /\ NewUserAccountWithHash("user-id-1", "testuser", "user@example.com",
                              "hashed_Password1!", "invalid", "",
                              now).err = ErrInvalidAccountType

\* all strings of at most n characters over an alphabet
RECURSIVE C29_StringsOver(_, _)
C29_StringsOver(alphabet, n) ==
    IF n = 0 THEN {""}
    ELSE LET shorter == C29_StringsOver(alphabet, n - 1)
         IN  shorter \cup {s \o c : s \in shorter, c \in alphabet}

\* C29: for every input string, NewUsername trims the input and then fails
\* with TooShort if the trimmed length is < 3, else with TooLong if it is
\* > 30, else with InvalidChars if a character is outside [A-Za-z0-9_], else
\* succeeds with a value equal to the trimmed input; hence every string of
\* length 3 to 30 over letters, digits and underscore succeeds and
\* round-trips unchanged, and a string that is both too short and has a bad
\* character reports TooShort.
C29_Thirty == "abcdefghijABCDEFGHIJ0123456789"

C29_Strings ==
    C29_StringsOver({"a", "Z", "9", "_", "-", " "}, MaxStrLen)
    \cup {C29_Thirty, C29_Thirty \o "k", " " \o C29_Thirty \o " ",
          "\t" \o C29_Thirty \o "k\n", C29_Thirty \o "-",
          SubSeq(C29_Thirty, 1, 29) \o "-", SubSeq(C29_Thirty, 1, 29) \o " "}
    \cup NewUsernameInputs

C29_NewUsernameContract ==
    /\ pc = "new" =>
          \A s \in C29_Strings :
              LET r == NewUsername(s)
                  left == CHOOSE i \in 1..(Len(s) + 1) :
                              /\ \A j \in 1..(i - 1) : Char(s, j) \in SpaceChars
                              /\ i <= Len(s) => Char(s, i) \notin SpaceChars
                  right == CHOOSE i \in 0..Len(s) :
                              /\ \A j \in (i + 1)..Len(s) : Char(s, j) \in SpaceChars
                              /\ i >= 1 => Char(s, i) \notin SpaceChars
                  v == SubSeq(s, left, right)
                  clean == \A i \in 1..Len(s) : Char(s, i) \in UsernameChars
              IN  /\ IF Len(v) < 3 THEN r.err = ErrUsernameTooShort
                     ELSE IF Len(v) > 30 THEN r.err = ErrUsernameTooLong
                     ELSE IF \E i \in 1..Len(v) : Char(v, i) \notin UsernameChars
                     THEN r.err = ErrUsernameInvalidChars
                     ELSE r.err = NoErr /\ r.value = v
                  /\ (clean /\ Len(s) >= 3 /\ Len(s) <= 30) =>
                        r.err = NoErr /\ r.value = s
                  /\ (Len(v) < 3 /\ ~clean) => r.err = ErrUsernameTooShort
    /\ Live => NewUsername(ua.Username) = [err |-> NoErr, value |-> ua.Username]

\* an account whose username was replaced by one that NewUsername accepted
C29_Witness ==
    /\ Live
    /\ lastOp = "UpdateUsername"
    /\ ua.Username = "new_user1"
    /\ NewUsername(" new_user1 ").value = ua.Username
    /\ NewUsername("a-").err = ErrUsernameTooShort

\* C30: for every raw password, ValidatePassword fails with Empty if the
\* string is empty or holds only white space (checked first: a string of
\* white space of any length reports Empty, not TooShort), else with
\* TooShort if its length is < 8, else with TooWeak if it lacks an uppercase
\* letter, a lowercase letter, a digit or a punctuation or symbol character,
\* and succeeds otherwise.
C30_Passwords ==
    LET alphabet == {"A", "a", "1", "!", " "}
        tails == C29_StringsOver(alphabet, MaxStrLen)
    IN  tails
        \cup {head \o tail : head \in {"aaaa", "AAAA", "1111", "!!!!", "    "},
                             tail \in {t \in tails : Len(t) = MaxStrLen}}
        \cup PasswordInputs

C30_ValidatePasswordContract ==
    /\ pc = "new" =>
          \A p \in C30_Passwords :
              LET e == ValidatePassword(p)
                  has(cs) == \E i \in 1..Len(p) : Char(p, i) \in cs
              IN  IF IsBlank(p) THEN e = ErrInvalidPassword
                  ELSE IF Len(p) < 8 THEN e = ErrPasswordTooShort
                  ELSE IF ~(/\ has(UpperChars) /\ has(LowerChars)
                            /\ has(DigitChars) /\ has(SpecialChars))
                  THEN e = ErrPasswordTooWeak
                  ELSE e = NoErr
    /\ ValidatePassword("Password1!") = NoErr
    /\ ValidatePassword("password1!") = ErrPasswordTooWeak
    /\ ValidatePassword("P1!") = ErrPasswordTooShort
    /\ (Live /\ lastOp = "NewUserAccountForTesting") =>
          \E p \in PasswordInputs :
              /\ ValidatePassword(p) = NoErr
              /\ ua.PasswordHash = "hashed_" \o p

\* an account built by NewUserAccountForTesting from an accepted password
C30_Witness ==
    /\ Live
    /\ lastOp = "NewUserAccountForTesting"
    /\ ua.PasswordHash = "hashed_Password1!"
    /\ ValidatePassword("        ") = ErrInvalidPassword

\* C31: the aggregate does no locking.  When an invocation of Disable and
\* one of Reactivate run one after the other, in either order, the account
\* is never left Active with a disability type or Disabled without one;
\* when their assignments interleave field by field such a state is
\* reached (C31_Witness).  The assignments taken one by one make up the
\* methods: applying all of them gives what the method returns.
C31_Unpaired(a) ==
    \/ a.Status = StatusActive /\ a.DisabilityType # None
    \/ a.Status = StatusDisabled /\ a.DisabilityType = None

C31_AtomicCallsKeepPairing ==
    /\ (/\ Live
        /\ ~inflight.mixed
        /\ ~Inside(inflight.Disable, Len(DisableWrites("", "", "", 0)))
        /\ ~Inside(inflight.Reactivate, Len(ReactivateWrites("", 0))))
          => ~C31_Unpaired(ua)
    /\ (Live /\ ~inflight.running) =>
          \A disablerID \in ActorInputs, disabilityType \in DisabilityTypeInputs,
             reason \in ReasonInputs, reactivatorID \in ActorInputs :
              LET d == Disable(ua, disablerID, disabilityType, reason, now)
                  r == Reactivate(ua, reactivatorID, now)
                  dw == DisableWrites(disablerID, disabilityType, reason, now)
                  rw == ReactivateWrites(reactivatorID, now)
                  dr == Reactivate(d.ua, reactivatorID, now)
                  rd == Disable(r.ua, disablerID, disabilityType, reason, now)
              IN  /\ d.err = NoErr => d.ua = ApplyWrites(ua, dw, Len(dw))
                  /\ r.err = NoErr => r.ua = ApplyWrites(ua, rw, Len(rw))
                  /\ ~C31_Unpaired(dr.ua)
                  /\ ~C31_Unpaired(rd.ua)

\* Disable(actor, T2, reason) and Reactivate(actor) began on an account
\* Disabled with T1 # T2, both returned nil, and the account is Active with
\* the disability type T2
C31_Witness ==
    /\ Returned
    /\ inflight.mixed
    /\ inflight.Disable.err = NoErr
    /\ inflight.Reactivate.err = NoErr
    /\ inflight.Disable.disablerID = inflight.Reactivate.reactivatorID
    /\ inflight.onStatus = StatusDisabled
    /\ inflight.onType # None
    /\ inflight.onType # Some(inflight.Disable.disabilityType)
    /\ ua.Status = StatusActive
    /\ ua.DisabilityType = Some(inflight.Disable.disabilityType)

\* C32: in every reachable state an Active or Disabled account is verified,
\* a verified account is not PendingVerification, and an unverified account
\* is PendingVerification or Deleted; so no call of Verify or SelfVerify on
\* a reachable state returns the already-verified error: on a state that is
\* not pending both return the not-pending error.
C32_VerifiedAndStatus ==
    Live =>
       /\ ua.Status \in {StatusActive, StatusDisabled} => ua.IsVerified
       /\ ua.IsVerified => ua.Status # StatusPendingVerification
       /\ ~ua.IsVerified =>
             ua.Status \in {StatusPendingVerification, StatusDeleted}
       /\ SelfVerify(ua, now).err # ErrAlreadyVerified
       /\ \A verifierID \in ActorInputs :
             Verify(ua, verifierID, now).err # ErrAlreadyVerified
       /\ ua.Status # StatusPendingVerification =>
             /\ SelfVerify(ua, now).err = ErrNotPending
             /\ \A verifierID \in ActorInputs :
                   Verify(ua, verifierID, now).err = ErrNotPending

\* a verified account that was disabled: Verify is refused as not pending
C32_Witness ==
    /\ Live
    /\ ua.IsVerified
    /\ ua.Status = StatusDisabled
    /\ Verify(ua, "admin-1", now).err = ErrNotPending
    /\ SelfVerify(ua, now).err = ErrNotPending

\* C33: in every reachable state verifiedBy and verifiedAt are present if
\* and only if isVerified is true, and on a verified account no call of any
\* method with any argument, at this or a later time, changes isVerified,
\* verifiedBy or verifiedAt (Verify and SelfVerify fail on it).
C33_VerifiedOnce ==
    Live =>
       /\ ua.IsVerified <=> ua.VerifiedBy # None
       /\ ua.IsVerified <=> ua.VerifiedAt # None
       /\ ua.IsVerified =>
             \A t \in {now, MaxTime + 1} :
                 \A m \in MethodResults(ua, t) :
                     /\ m.r.ua.IsVerified
                     /\ m.r.ua.VerifiedBy = ua.VerifiedBy
                     /\ m.r.ua.VerifiedAt = ua.VerifiedAt
                     /\ m.op \in {"Verify", "SelfVerify"} => m.r.err # NoErr

\* an account verified at time 0 was disabled, reactivated and deleted
\* later, and keeps its verifier and the time of its verification
C33_Witness ==
    /\ Live
    /\ ua.Status = StatusDeleted
    /\ ua.IsVerified
    /\ ua.VerifiedBy = Some("admin-1")
    /\ ua.VerifiedAt = Some(0)
    /\ ua.LastActionBy = Some("admin-2")
    /\ ua.DeletedAt = Some(1)
    /\ everActive
    /\ lastOp = "Delete"

\* C34: in every reachable state deletedAt and deletedBy are present if and
\* only if the status is Deleted; on a deleted account no call of any method
\* changes them, while every Update and login-tracking call that returns
\* nil at a later time moves updatedAt past deletedAt.
C34_DeletionRecord ==
    Live =>
       /\ ua.Status = StatusDeleted <=> ua.DeletedAt # None
       /\ ua.Status = StatusDeleted <=> ua.DeletedBy # None
       /\ ua.Status = StatusDeleted =>
             \A t \in {now, MaxTime + 1} :
                 /\ \A m \in MethodResults(ua, t) :
                       /\ m.r.ua.DeletedAt = ua.DeletedAt
                       /\ m.r.ua.DeletedBy = ua.DeletedBy
                 /\ \A m \in IdentityResults(ua, t) \cup LoginResults(ua, t) :
                       m.r.err = NoErr => m.r.ua.UpdatedAt = t
                 /\ \E m \in IdentityResults(ua, t) : m.r.err = NoErr
                 /\ \E m \in LoginResults(ua, t) : m.r.err = NoErr

\* an account deleted at time 0 on which UnlockAccount was called at time 1
C34_Witness ==
    /\ Live
    /\ ua.Status = StatusDeleted
    /\ ua.DeletedAt = Some(0)
    /\ ua.DeletedBy = Some("admin-1")
    /\ ua.UpdatedAt > ua.DeletedAt[1]
    /\ lastOp = "UnlockAccount"

\* C35: in every reachable state lockedUntil present implies
\* failedLoginAttempts >= 1: a RecordFailedLogin that returns nil leaves the
\* counter at 1 or more whether or not it sets lockedUntil, and a
\* RecordSuccessfulLogin or UnlockAccount that returns nil leaves the
\* counter at 0 and lockedUntil absent.
C35_LockImpliesFailures ==
    Live =>
       /\ ua.LockedUntil # None => ua.FailedLoginAttempts >= 1
       /\ \A m \in LoginResults(ua, now) :
             m.r.err = NoErr =>
                IF m.op = "RecordFailedLogin"
                THEN /\ m.r.ua.FailedLoginAttempts >= 1
                     /\ m.r.ua.LockedUntil # ua.LockedUntil =>
                           m.r.ua.LockedUntil # None
                ELSE /\ m.r.ua.FailedLoginAttempts = 0
                     /\ m.r.ua.LockedUntil = None

\* the second failed login, at time 0, locked the account until time 1
C35_Witness ==
    /\ Live
    /\ now = 0
    /\ lastOp = "RecordFailedLogin"
    /\ ua.FailedLoginAttempts = 2
    /\ ua.LockedUntil = Some(1)
    /\ UnlockAccount(ua, now).ua.LockedUntil = None

\* C36: on every reachable state, for every actor string and clock value,
\* Activate and Reactivate both return nil or both return an error, they
\* leave the same account (on success: status Active, no disability type,
\* no reason, lastActionBy the actor, updatedAt the clock value), and their
\* errors differ only in the text: not-disabled answers not-disabled and
\* empty-activator answers empty-reactivator.
C36_ActivateIsReactivate ==
    Live =>
       \A actor \in ActorInputs, t \in {now, MaxTime + 1} :
           LET a == Activate(ua, actor, t)
               r == Reactivate(ua, actor, t)
           IN  /\ a.err = NoErr <=> r.err = NoErr
               /\ a.ua = r.ua
               /\ a.err = ErrNotDisabled <=> r.err = ErrNotDisabledReactivate
               /\ a.err = ErrEmptyActivator <=> r.err = ErrEmptyReactivator
               /\ a.err # NoErr => a.err # r.err /\ a.ua = ua
               /\ a.err = NoErr =>
                     /\ ua.Status = StatusDisabled
                     /\ a.ua.Status = StatusActive
                     /\ a.ua.DisabilityType = None
                     /\ a.ua.IssuedReason = None
                     /\ a.ua.LastActionBy = Some(actor)
                     /\ a.ua.UpdatedAt = t

\* a disabled account that both calls by admin-2 would make Active, and
\* that both refuse for a blank actor
C36_Witness ==
    /\ Live
    /\ ua.Status = StatusDisabled
    /\ ua.LastActionBy = Some("admin-1")
    /\ Activate(ua, "admin-2", now).err = NoErr
    /\ Reactivate(ua, "admin-2", now).ua.LastActionBy = Some("admin-2")
    /\ Reactivate(ua, "admin-2", now).ua = Activate(ua, "admin-2", now).ua
    /\ Activate(ua, " ", now).err = ErrEmptyActivator
    /\ Reactivate(ua, " ", now).err = ErrEmptyReactivator

\* C37: on every reachable state, every call of Verify, SelfVerify, Disable
\* and its wrappers, Activate, Reactivate and Delete leaves the login
\* tracking and identity fields unchanged (failedLoginAttempts, lockedUntil,
\* lastLogin*, lastFailedLogin*, username, email, passwordHash, type,
\* registeredBy, id, createdAt), and every call of the Update methods,
\* RecordSuccessfulLogin, RecordFailedLogin and UnlockAccount leaves the
\* lifecycle fields unchanged (status, disabilityType, issuedReason,
\* isVerified, verifiedBy, verifiedAt, deletedAt, deletedBy, lastActionBy);
\* so a Suspend followed by a Reactivate keeps the lock and the counter.
C37_LoginAndIdentity(a) ==
    <<a.FailedLoginAttempts, a.LockedUntil, a.LastLoginAt, a.LastLoginIP,
      a.LastFailedLoginAttempt, a.LastFailedLoginIP, a.Username, a.Email,
      a.PasswordHash, a.Type, a.RegisteredBy, a.ID, a.CreatedAt>>

C37_Lifecycle(a) ==
    <<a.Status, a.DisabilityType, a.IssuedReason, a.IsVerified, a.VerifiedBy,
      a.VerifiedAt, a.DeletedAt, a.DeletedBy, a.LastActionBy>>

C37_IndependentFrames ==
    Live =>
       /\ \A m \in LifecycleResults(ua, now) :
             C37_LoginAndIdentity(m.r.ua) = C37_LoginAndIdentity(ua)
       /\ \A m \in IdentityResults(ua, now) \cup LoginResults(ua, now) :
             C37_Lifecycle(m.r.ua) = C37_Lifecycle(ua)
       /\ LET d == Suspend(ua, "admin-1", "abuse", now)
              r == Reactivate(d.ua, "admin-2", now)
          IN  /\ r.ua.LockedUntil = ua.LockedUntil
              /\ r.ua.FailedLoginAttempts = ua.FailedLoginAttempts
              /\ IsLocked(r.ua, now) = IsLocked(ua, now)

\* an account whose second failed login at time 0 set lockedUntil to 1
\* keeps that lockedUntil and the count of 2 after a Reactivate at time 1
\* ended its suspension
C37_Witness ==
    /\ Live
    /\ now = 1
    /\ lastOp = "Reactivate"
    /\ ua.Status = StatusActive
    /\ ua.UpdatedAt = 1
    /\ ua.FailedLoginAttempts = 2
    /\ ua.LastFailedLoginAttempt = Some(0)
    /\ ua.LockedUntil = Some(1)
    /\ Suspend(ua, "admin-1", "abuse", now).err = NoErr
    /\ Suspend(ua, "admin-1", "abuse", now).ua.LockedUntil = Some(1)

\* C38: in every reachable state, whatever the status, UpdateUsername and
\* UpdateEmail with a valid value other than the current one,
\* UpdatePasswordHash with a non-blank hash, UpdateType with a valid type
\* other than the current one, RecordSuccessfulLogin with a non-blank ip,
\* RecordFailedLogin with a non-blank ip and maxAttempts >= 1, and
\* UnlockAccount return nil, assign their fields and updatedAt, and leave
\* the status as it is.
C38_NotGatedOnStatus ==
    Live =>
       LET t == MaxTime + 1
           ok(r) == /\ r.err = NoErr
                    /\ r.ua.UpdatedAt = t
                    /\ r.ua # ua
                    /\ r.ua.Status = ua.Status
       IN  /\ ua.Status \in {StatusPendingVerification, StatusActive,
                             StatusDisabled, StatusDeleted}
           /\ \A v \in NewUsernameInputs :
                 (NewUsername(v).err = NoErr /\ NewUsername(v).value # ua.Username)
                    => /\ ok(UpdateUsername(ua, v, t))
                       /\ UpdateUsername(ua, v, t).ua.Username = NewUsername(v).value
           /\ \A v \in NewEmailInputs :
                 (NewEmail(v).err = NoErr /\ NewEmail(v).value # ua.Email)
                    => /\ ok(UpdateEmail(ua, v, t))
                       /\ UpdateEmail(ua, v, t).ua.Email = NewEmail(v).value
           /\ \A v \in NewHashInputs :
                 ~IsBlank(v)
                    => /\ ok(UpdatePasswordHash(ua, v, t))
                       /\ UpdatePasswordHash(ua, v, t).ua.PasswordHash = v
           /\ \A v \in C24_AccountTypes :
                 v # ua.Type
                    => /\ ok(UpdateType(ua, v, t))
                       /\ UpdateType(ua, v, t).ua.Type = v
           /\ \A ip \in IPInputs :
                 ~IsBlank(ip)
                    => /\ ok(RecordSuccessfulLogin(ua, ip, t))
                       /\ RecordSuccessfulLogin(ua, ip, t).ua.LastLoginIP = Some(ip)
                       /\ \A maxAttempts \in 1..MaxFailed,
                             lockDuration \in LockDurationInputs :
                             LET r == RecordFailedLogin(ua, ip, maxAttempts,
                                                        lockDuration, t)
                             IN  /\ ok(r)
                                 /\ r.ua.FailedLoginAttempts =
                                       ua.FailedLoginAttempts + 1
           /\ ok(UnlockAccount(ua, t))

\* an account deleted before it was ever verified, on which UnlockAccount
\* was called after the deletion and whose type can still be changed
C38_Witness ==
    /\ Live
    /\ ua.Status = StatusDeleted
    /\ ~ua.IsVerified
    /\ lastOp = "UnlockAccount"
    /\ ua.UpdatedAt > ua.DeletedAt[1]
    /\ UpdateType(ua, TypeInternal, now).err = NoErr
    /\ UpdateType(ua, TypeInternal, now).ua.Status = StatusDeleted

\* C39: the expiry of a lock does not reset the failure counter.  In every
\* reachable state with lockedUntil present, at every clock value t from
\* lockedUntil on IsLocked() is false while the account, with its counter and
\* its lockedUntil, is as it was; and at every clock value, the lock run out
\* or not, one RecordFailedLogin with maxAttempts no greater than the counter
\* (the maxAttempts that set the lock is one) sets lockedUntil to
\* t + lockDuration of that call, so that the account is locked at once for
\* every lockDuration > 0.
C39_ExpiryKeepsCounter ==
    (Live /\ ua.LockedUntil # None) =>
       /\ ua.FailedLoginAttempts >= 1
       /\ \A t \in C21_Clock :
             /\ t >= ua.LockedUntil[1] => ~IsLocked(ua, t)
             /\ \A ip \in IPInputs, maxAttempts \in 1..ua.FailedLoginAttempts,
                   lockDuration \in LockDurationInputs :
                   LET r == RecordFailedLogin(ua, ip, maxAttempts, lockDuration, t)
                   IN  ~IsBlank(ip) =>
                          /\ r.err = NoErr
                          /\ r.ua.FailedLoginAttempts = ua.FailedLoginAttempts + 1
                          /\ r.ua.LockedUntil = Some(t + lockDuration)
                          /\ lockDuration > 0 => IsLocked(r.ua, t)

\* the lock that the first failed login set at time 0 has run out at time
\* 1 with the counter still at 1; a further failed login with maxAttempts 1
\* locks the account until time 2
C39_Witness ==
    /\ Live
    /\ now = 1
    /\ lastOp = "RecordFailedLogin"
    /\ ua.UpdatedAt = 0
    /\ ua.FailedLoginAttempts = 1
    /\ ua.LockedUntil = Some(1)
    /\ IsLocked(ua, 0)
    /\ ~IsLocked(ua, now)
    /\ RecordFailedLogin(ua, "192.168.1.1", 1, 1, now).ua.LockedUntil = Some(2)
    /\ IsLocked(RecordFailedLogin(ua, "192.168.1.1", 1, 1, now).ua, now)

\* C40: SelfVerify refuses a pending account whose type is not Membership,
\* yet on every such reachable account, the accounts as constructed with
\* type Internal, External, Partner or Developer among them, the calls
\* UpdateType(Membership), SelfVerify, UpdateType(its type) all return nil
\* and leave it Active, verified by "self", with the type it had: no Verify
\* by a verifier is needed.
C40_SelfVerifyThroughUpdateType ==
    (/\ Live
     /\ ua.Status = StatusPendingVerification
     /\ ua.Type # TypeMembership) =>
       LET toMembership == UpdateType(ua, TypeMembership, now)
           verified == SelfVerify(toMembership.ua, now)
           back == UpdateType(verified.ua, ua.Type, now)
       IN  /\ ua.Type \in C24_AccountTypes
           /\ SelfVerify(ua, now).err = ErrSelfVerifyNotAllowed
           /\ toMembership.err = NoErr
           /\ verified.err = NoErr
           /\ back.err = NoErr
           /\ back.ua = [ua EXCEPT
                            !.Status = StatusActive,
                            !.IsVerified = TRUE,
                            !.VerifiedBy = Some(SelfRegistration),
                            !.VerifiedAt = Some(now),
                            !.LastActionBy = Some(SelfRegistration),
                            !.UpdatedAt = now]

\* an account that an administrator registered is Active, verified by
\* "self", and of type Internal after an UpdateType
C40_Witness ==
    /\ Live
    /\ lastOp = "UpdateType"
    /\ ua.RegisteredBy = Some("admin-1")
    /\ ua.Type = TypeInternal
    /\ ua.Status = StatusActive
    /\ ua.IsVerified
    /\ ua.VerifiedBy = Some(SelfRegistration)
    /\ ua.LastActionBy = Some(SelfRegistration)

=============================================================================
